---- MODULE Spec2Model ----
(***************************************************************************)
(* Model of the forge graph runtime (src/src/runtime): the checkpoint /    *)
(* resume protocol of CompiledGraph, the RecordingSink with its            *)
(* EventSequencer, and the PermissionSession override sets.                *)
(***************************************************************************)
EXTENDS Integers, Sequences, FiniteSets, TLC

VARIABLES
    checkpoints,   \* checkpoints returned to the caller so far, by creation order
    runs,          \* number of invoke_resumable calls made (run ids handed out)
    last,          \* what the most recent invoke_resumable / resume call returned
    memo,          \* one earlier resume call the caller remembered
    emitters,      \* the threads that emit through the one RecordingSink
    next_seq,      \* EventSequencer.next_seq
    now,           \* the wall clock read by EventMeta::new
    history,       \* the shared event history buffer
    delivered,     \* records handed to the configured EventRecordSink
    forwarded,     \* events handed to the wrapped user sink
    pc,            \* where each emitting thread stands inside RecordingSink::emit
    rec,           \* the record each emitting thread holds
    once,          \* PermissionOverrides.once
    always,        \* PermissionOverrides.always
    reject,        \* PermissionOverrides.reject
    lastDecide,    \* what the most recent PermissionSession::decide saw and returned
    ops,           \* number of PermissionSession calls made
    cancelled,     \* CancellationToken.cancelled
    reason,        \* CancellationToken.reason
    cancelCall,    \* where the thread calling cancel(reason) stands
    lastCheck,     \* what the most recent ToolContext::check_cancelled returned
    toolCall,      \* the most recent tool invocation: what it emitted and returned
    origin,        \* for each checkpoint, the run id of the invoke_resumable it stems from
    runCall,       \* the run events the most recent invoke_resumable / resume wrote
    iter,          \* one invoke of a chain graph: its configuration and loop variables
    route,         \* the most recent get_next_node call: its inputs and what it returned
    walk,          \* one run of a branching graph with masked nodes, in one execution mode
    rsink,         \* one RecordingSink used by a single thread: its streams and what each emit returned
    prune,         \* one prune_tool_events call: the list before, the policy, the list after
    stream,        \* one stream_events run: its configuration, history, sinks and last step
    session,       \* one SessionState and its most recent method call
    attach,        \* one process_attachments call: the attachments, the policy, the store, the result
    cstore,        \* one CheckpointStore directory and the persisted invoke / resume call in progress
    ask,           \* one handler running its tools behind a permission gate, and the caller's replies and resumes
    gate,          \* one PermissionSession and the two handler threads calling decide on it
    budget         \* the iteration budget over an invoke_resumable call and its resumes

execVars == <<checkpoints, runs, last, memo>>
sinkVars == <<emitters, next_seq, now, history, delivered, forwarded, pc, rec>>
permVars == <<once, always, reject, lastDecide, ops>>
toolVars == <<cancelled, reason, cancelCall, lastCheck, toolCall>>
runVars == <<origin, runCall>>
iterVars == <<iter>>
routeVars == <<route>>
walkVars == <<walk>>
emitVars == <<rsink>>
pruneVars == <<prune>>
streamVars == <<stream>>
sessionVars == <<session>>
attachVars == <<attach>>
storeVars == <<cstore>>
askVars == <<ask>>
gateVars == <<gate>>
budgetVars == <<budget>>

vars == <<checkpoints, runs, last, memo,
          emitters, next_seq, now, history, delivered, forwarded, pc, rec,
          once, always, reject, lastDecide, ops,
          cancelled, reason, cancelCall, lastCheck, toolCall,
          origin, runCall, iter, route, walk, rsink, prune, stream, session, attach, cstore, ask, gate, budget>>

(***************************************************************************)
(* Bounds of the model.                                                    *)
(***************************************************************************)
MaxCheckpoints == 3
MaxRuns == 1
MaxCalls == 4
MaxEmits == 3
MaxClock == 1
MaxOps == 4
MaxToolOps == 2
MaxAttachments == 1
MaxSinkRuns == 2
MaxSinkCalls == 3
MaxIterationLimit == 3
MaxPathLen == 4
MaxEdges == 2
MaxBudgetResumes == 4
MaxBudgetPath == 2
MaxBudgetIterations == 3
MaxAskRuns == 2
MaxAskTools == 3
MaxStoreIds == 3
MaxStoreCalls == 3
MaxInlineBytes == 2
MaxSessionOps == 2
MaxStreamNodes == 2
MaxKeep == 2
MaxEvents == 4
MaxEmitCalls == 3

(***************************************************************************)
(* JSON values (serde_json::Value) carried by commands and resume values.  *)
(***************************************************************************)
Str(s) == [kind |-> "str", keys |-> <<>>, items |-> <<s>>]
Arr(xs) == [kind |-> "arr", keys |-> <<>>, items |-> xs]
MapVal(ks, xs) == [kind |-> "map", keys |-> ks, items |-> xs]
Absent == [kind |-> "absent", keys |-> <<>>, items |-> <<>>]
NoId == "none"

(***************************************************************************)
(* The graph under execution: START -> prep -> first -> multi -> finish    *)
(* -> END, built as the pause/resume integration tests build theirs.       *)
(***************************************************************************)
START == "__start__"
END == "__end__"
Nodes == {"prep", "first", "multi", "finish"}
InterruptIds == {"i-first", "interrupt-1", "interrupt-2", "i-wrong"}
Keys == Nodes \cup InterruptIds

Direct(to) == [kind |-> "Direct", to |-> to]
Edges ==
    [n \in Nodes \cup {START} |->
        CASE n = START -> <<Direct("prep")>>
          [] n = "prep" -> <<Direct("first")>>
          [] n = "first" -> <<Direct("multi")>>
          [] n = "multi" -> <<Direct("finish")>>
          [] n = "finish" -> <<Direct(END)>>]

\* ExecutionConfig: max_iterations and masked_nodes
max_iterations == 8
masked_nodes == {}

InitialState ==
    [resume |-> [k \in Keys |-> Absent],
     done |-> [n \in Nodes |-> 0],
     answers |-> <<>>,
     next |-> NoId,
     fault |-> "none"]

\* GraphState::set("resume:<key>", value)
StateSet(state, key, value) == [state EXCEPT !.resume[key] = value]

Interrupt(value, node, id) == [id |-> id, node |-> node, value |-> value]

Ok(state) == [kind |-> "Ok", state |-> state, interrupts |-> <<>>]
Interrupted(state, interrupts) ==
    [kind |-> "Interrupted", state |-> state, interrupts |-> interrupts]
\* A handler returning Err(e) for an error e other than Interrupted
Failed(state, error) ==
    [kind |-> "Err", state |-> state, interrupts |-> <<>>, error |-> error]
Completed(state, node) == [state EXCEPT !.done[node] = @ + 1]

\* Node handlers, deterministic in the state they are given.
\* prep_node runs a tool first: with fault "abort" the tool calls ctx.abort, with
\* fault "fail" it returns an ExecutionError, and the handler passes the error on.
prep_node(state) ==
    IF state.fault = "abort" THEN Failed(state, "Aborted")
    ELSE IF state.fault = "fail" THEN Failed(state, "ExecutionError")
    ELSE Ok(Completed(state, "prep"))

validate_resume_node(state) ==
    IF state.resume["first"] = Str("approved")
    THEN Ok(Completed(state, "first"))
    ELSE Interrupted(state, <<Interrupt(Str("invalid resume value"), "first", "i-first")>>)

multi_interrupt_node(state) ==
    IF state.resume["multi"].kind = "arr" /\ Len(state.resume["multi"].items) = 2
    THEN Ok([Completed(state, "multi") EXCEPT !.answers = state.resume["multi"].items])
    ELSE Interrupted(state,
            <<Interrupt(Str("approve first"), "multi", "interrupt-1"),
              Interrupt(Str("approve second"), "multi", "interrupt-2")>>)

finish_node(state) == Ok(Completed(state, "finish"))

Execute(node, state) ==
    CASE node = "prep" -> prep_node(state)
      [] node = "first" -> validate_resume_node(state)
      [] node = "multi" -> multi_interrupt_node(state)
      [] node = "finish" -> finish_node(state)

\* CompiledGraph::get_next_node
GetNextNode(current, state) ==
    IF state.next # NoId THEN state.next
    ELSE IF current \notin DOMAIN Edges THEN END
    ELSE IF Edges[current] = <<>> THEN END
    ELSE Edges[current][1].to

(***************************************************************************)
(* Checkpoints and results.                                                *)
(***************************************************************************)
NoCheckpoint ==
    [run_id |-> 0, checkpoint_id |-> 0, state |-> InitialState, next_node |-> END,
     pending_interrupts |-> <<>>, iterations |-> 0,
     resume_values |-> [k \in Keys |-> Absent]]

Result(kind, error, state, checkpoint, log) ==
    [kind |-> kind, error |-> error, state |-> state, checkpoint |-> checkpoint,
     log |-> log]

\* The resume values a fresh checkpoint carries: those the run was entered with.
CheckpointResumeValuesDropped(resume_values) == [k \in Keys |-> Absent]
CheckpointResumeValues(resume_values) == resume_values

\* The node a fresh checkpoint names as next: the one that interrupted.
CheckpointNextNodeAdvanced(current_node) == Edges[current_node][1].to
CheckpointNextNode(current_node) == current_node

\* The state the handler of `current` is invoked on: a resume value keyed by the
\* node name is injected under resume:<node>.
InjectResume(state, current, resume_values) ==
    IF resume_values[current] # Absent
    THEN StateSet(state, current, resume_values[current])
    ELSE state

\* The loop of CompiledGraph::run_with_checkpoint. `log` lists the handler
\* invocations of this call, each with the state the handler was given.
RECURSIVE RunLoop(_, _, _, _, _, _)
RunLoop(run_id, state, current_node, iterations, resume_values, log) ==
    IF current_node # END /\ iterations < max_iterations
    THEN LET it == iterations + 1 IN
         IF current_node \in masked_nodes
         THEN RunLoop(run_id, state, GetNextNode(current_node, state), it,
                      resume_values, log)
         ELSE LET injected == InjectResume(state, current_node, resume_values)
                  entry == [node |-> current_node, state |-> injected]
              IN  IF current_node \notin Nodes
                  THEN Result("Err", "NodeNotFound", injected, NoCheckpoint, log)
                  ELSE LET r == Execute(current_node, injected) IN
                       IF r.kind = "Ok"
                       THEN RunLoop(run_id, r.state,
                                    GetNextNode(current_node, r.state), it,
                                    resume_values, Append(log, entry))
                       ELSE IF r.kind = "Err"
                       THEN Result("Err", r.error, injected, NoCheckpoint,
                                   Append(log, entry))
                       ELSE Result("Interrupted", "", injected,
                                   [run_id |-> run_id,
                                    checkpoint_id |-> 0,
                                    state |-> injected,
                                    next_node |-> CheckpointNextNode(current_node),
                                    pending_interrupts |-> r.interrupts,
                                    iterations |-> it,
                                    resume_values |->
                                        CheckpointResumeValues(resume_values)],
                                   Append(log, entry))
    ELSE IF iterations >= max_iterations
         THEN Result("Err", "MaxIterationsExceeded", state, NoCheckpoint, log)
         ELSE Result("Complete", "", state, NoCheckpoint, log)

\* CompiledGraph::run_with_checkpoint
RunWithCheckpoint(run_id, initial_state, start_node, start_iterations, resume_values) ==
    RunLoop(run_id, initial_state,
            IF start_node = START THEN GetNextNode(START, initial_state) ELSE start_node,
            start_iterations, resume_values, <<>>)

(***************************************************************************)
(* Resume commands the caller may pass (ResumeCommand: value, interrupt_id).*)
(***************************************************************************)
Command(value, interrupt_id) == [value |-> value, interrupt_id |-> interrupt_id]
Commands ==
    {Command(Str("approved"), NoId),
     Command(Str("continue"), NoId),
     Command(Str("approved"), "i-first"),
     Command(Str("approved"), "i-wrong"),
     Command(Arr(<<"x", "y">>), NoId),
     Command(MapVal(<<"interrupt-1">>, <<"x">>), NoId)}

\* The first lines of CompiledGraph::resume: the command merged into the
\* checkpoint's resume values.
MergeResumeValues(checkpoint, command) ==
    LET rv0 == checkpoint.resume_values
        rv1 == IF command.interrupt_id # NoId
               THEN [rv0 EXCEPT ![command.interrupt_id] = command.value]
               ELSE rv0
    IN  IF checkpoint.pending_interrupts # <<>>
        THEN LET interrupt == checkpoint.pending_interrupts[1] IN
             [rv1 EXCEPT ![interrupt.id] = command.value,
                         ![interrupt.node] = command.value]
        ELSE rv1

\* uuid::Uuid::new_v4() for a checkpoint: an id no earlier checkpoint has.
FreshCheckpointId(existing) == Len(existing) + 1

\* resume takes the checkpoint by value: the caller's copy stays as it was.
CallerCheckpointShared(checkpoint, result) == [checkpoint EXCEPT !.state = result.state]
CallerCheckpointAfterResume(checkpoint, result) == checkpoint

Stamp(result, id) ==
    IF result.kind = "Interrupted"
    THEN [result EXCEPT !.checkpoint.checkpoint_id = id]
    ELSE result

NoCommand == Command(Absent, NoId)
NoCall == [op |-> "none", n |-> 0, from |-> 0, command |-> NoCommand,
           result |-> Result("none", "", InitialState, NoCheckpoint, <<>>)]

Returned(call) ==
    IF call.result.kind = "Interrupted"
    THEN Append(checkpoints, call.result.checkpoint)
    ELSE checkpoints

\* CompiledGraph::invoke_resumable
InvokeResumable ==
    /\ runs < MaxRuns
    /\ last.n < MaxCalls
    /\ LET run_id == runs + 1
           res == Stamp(RunWithCheckpoint(run_id, InitialState, START, 0,
                                          [k \in Keys |-> Absent]),
                        FreshCheckpointId(checkpoints))
           call == [op |-> "invoke", n |-> last.n + 1, from |-> 0, command |-> NoCommand, result |-> res]
       IN  /\ res.kind = "Interrupted" => Len(checkpoints) < MaxCheckpoints
           /\ checkpoints' = Returned(call)
           /\ last' = call
    /\ runs' = runs + 1
    /\ UNCHANGED memo

\* CompiledGraph::resume
Resume(c, command) ==
    LET checkpoint == checkpoints[c]
        resume_values == MergeResumeValues(checkpoint, command)
        res == Stamp(RunWithCheckpoint(checkpoint.run_id, checkpoint.state,
                                       checkpoint.next_node, checkpoint.iterations,
                                       resume_values),
                     FreshCheckpointId(checkpoints))
        call == [op |-> "resume", n |-> last.n + 1, from |-> c, command |-> command, result |-> res]
        held == [checkpoints EXCEPT ![c] = CallerCheckpointAfterResume(checkpoint, res)]
    IN  /\ last.n < MaxCalls
        /\ res.kind = "Interrupted" => Len(checkpoints) < MaxCheckpoints
        /\ checkpoints' = IF res.kind = "Interrupted"
                          THEN Append(held, res.checkpoint)
                          ELSE held
        /\ last' = call
        /\ memo' \in {memo, call}
        /\ UNCHANGED runs

ExecInit ==
    /\ checkpoints = <<>>
    /\ runs = 0
    /\ last = NoCall
    /\ memo = NoCall

ExecNext ==
    \/ InvokeResumable
    \/ \E c \in 1..Len(checkpoints), command \in Commands : Resume(c, command)

(***************************************************************************)
(* RecordingSink and EventSequencer.  emit(&self) takes no lock of its own: *)
(* the sequencer's counter is an atomic, the history a mutex held for the  *)
(* push alone, so a thread inside emit can be overtaken between its steps. *)
(***************************************************************************)
Events == {"TextDelta"}
EventIds == {"id-a", "id-b"}
NoRecord == [seq |-> 0, timestamp_ms |-> 0, event_id |-> "", event |-> ""]

\* EventSequencer::record: next_seq.fetch_add(1) + 1
SequencerStuck(counter) == counter
SequencerAdvance(counter) == counter + 1

\* EventRecord::new / EventMeta::new
EventRecord(event, seq, event_id) ==
    [seq |-> seq, timestamp_ms |-> now, event_id |-> event_id, event |-> event]

\* EventRecord::cmp_meta(a, b) = Less
CmpMetaLess(a, b) ==
    \/ a.seq < b.seq
    \/ a.seq = b.seq /\ a.timestamp_ms < b.timestamp_ms
    \/ a.seq = b.seq /\ a.timestamp_ms = b.timestamp_ms /\ a.event_id < b.event_id

\* self.sequencer.record(event.clone())
SequencerRecord(t, event, event_id) ==
    /\ pc[t] = "idle"
    /\ next_seq < MaxEmits
    /\ next_seq' = SequencerAdvance(next_seq)
    /\ rec' = [rec EXCEPT ![t] = EventRecord(event, next_seq + 1, event_id)]
    /\ pc' = [pc EXCEPT ![t] = "push"]
    /\ UNCHANGED <<emitters, now, history, delivered, forwarded>>

\* self.history.lock().unwrap().push(record.clone())
HistoryPush(t) ==
    /\ pc[t] = "push"
    /\ history' = Append(history, rec[t])
    /\ pc' = [pc EXCEPT ![t] = "record_sink"]
    /\ UNCHANGED <<emitters, next_seq, now, delivered, forwarded, rec>>

\* record_sink.emit_record(record.clone())? returning Ok
EmitRecord(t) ==
    /\ pc[t] = "record_sink"
    /\ delivered' = Append(delivered, rec[t])
    /\ pc' = [pc EXCEPT ![t] = "inner"]
    /\ UNCHANGED <<emitters, next_seq, now, history, forwarded, rec>>

\* record_sink.emit_record(record.clone())? returning Err: emit returns it
EmitRecordFails(t) ==
    /\ pc[t] = "record_sink"
    /\ pc' = [pc EXCEPT ![t] = "idle"]
    /\ UNCHANGED <<emitters, next_seq, now, history, delivered, forwarded, rec>>

\* self.inner.emit(event)
InnerEmit(t) ==
    /\ pc[t] = "inner"
    /\ forwarded' = Append(forwarded, rec[t].event)
    /\ pc' = [pc EXCEPT ![t] = "idle"]
    /\ UNCHANGED <<emitters, next_seq, now, history, delivered, rec>>

\* SystemTime::now() moves between reads (it is not a monotonic clock)
ClockMoves ==
    /\ \E ms \in 0..MaxClock : ms # now /\ now' = ms
    /\ UNCHANGED <<emitters, next_seq, history, delivered, forwarded, pc, rec>>

SinkInit(threads) ==
    /\ emitters = threads
    /\ next_seq = 0
    /\ now = 0
    /\ history = <<>>
    /\ delivered = <<>>
    /\ forwarded = <<>>
    /\ pc = [t \in threads |-> "idle"]
    /\ rec = [t \in threads |-> NoRecord]

SinkNext ==
    \/ \E t \in emitters, event \in Events, event_id \in EventIds :
          SequencerRecord(t, event, event_id)
    \/ \E t \in emitters : HistoryPush(t)
    \/ \E t \in emitters : EmitRecord(t)
    \/ \E t \in emitters : EmitRecordFails(t)
    \/ \E t \in emitters : InnerEmit(t)
    \/ ClockMoves

(***************************************************************************)
(* PermissionPolicy and PermissionSession.  Permission strings and         *)
(* patterns are sequences of characters.                                   *)
(***************************************************************************)
Star == "*"
Permissions == {<<"t", "a">>, <<"t", "b">>}
Patterns == {<<Star>>, <<"t", Star>>, <<"t", "a", Star>>, <<"t", "a">>}
Replies == {"Once", "Always", "Reject"}
NoPattern == <<>>

\* str::strip_suffix('*') applies / str::starts_with
EndsWithStar(pattern) == Len(pattern) > 0 /\ pattern[Len(pattern)] = Star
StartsWith(permission, prefix) ==
    /\ Len(prefix) <= Len(permission)
    /\ SubSeq(permission, 1, Len(prefix)) = prefix

NoScore == <<-1, 0>>
\* pattern_match_score: (tier, length) or None
pattern_match_score(pattern, permission) ==
    IF pattern = <<Star>> THEN <<0, 0>>
    ELSE IF EndsWithStar(pattern)
    THEN LET prefix == SubSeq(pattern, 1, Len(pattern) - 1) IN
         IF StartsWith(permission, prefix) THEN <<1, Len(prefix)>> ELSE NoScore
    ELSE IF permission = pattern THEN <<2, Len(pattern)>>
    ELSE NoScore

\* matches_pattern
matches_pattern(pattern, permission) ==
    pattern_match_score(pattern, permission) # NoScore

\* Ordering of (u8, usize) scores
ScoreGreaterTierOnly(a, b) == a[1] > b[1]
ScoreGreater(a, b) == a[1] > b[1] \/ (a[1] = b[1] /\ a[2] > b[2])

\* The orders in which `for pattern in patterns` can visit a HashSet.
IterationOrders(patterns) ==
    {order \in [1..Cardinality(patterns) -> patterns] :
        \A i, j \in 1..Cardinality(patterns) : order[i] = order[j] => i = j}

\* The loop of best_matching_pattern over one iteration order: a pattern
\* replaces the best so far only with a strictly greater score.
RECURSIVE BestScan(_, _, _, _, _)
BestScan(order, n, i, permission, best) ==
    IF i > n THEN best
    ELSE LET pattern == order[i]
             score == pattern_match_score(pattern, permission)
             replace == IF best = NoPattern THEN TRUE
                        ELSE ScoreGreater(score, pattern_match_score(best, permission))
         IN  IF score = NoScore THEN BestScan(order, n, i + 1, permission, best)
             ELSE IF replace THEN BestScan(order, n, i + 1, permission, pattern)
             ELSE BestScan(order, n, i + 1, permission, best)

\* best_matching_pattern: every result the scan can give, over the iteration
\* orders of the HashSet; NoPattern stands for None.
best_matching_pattern(patterns, permission) ==
    {BestScan(order, Cardinality(patterns), 1, permission, NoPattern) :
        order \in IterationOrders(patterns)}

\* The base policy of the session: rules in order, each (action, patterns).
BaseRules ==
    <<[action |-> "Deny", patterns |-> {<<"t", "b">>}],
      [action |-> "Ask", patterns |-> {<<"t", Star>>}]>>

\* PermissionPolicy::decide
PolicyDecide(rules, permission) ==
    LET hits == {i \in 1..Len(rules) :
                    \E pattern \in rules[i].patterns :
                        matches_pattern(pattern, permission)}
    IN  IF hits = {} THEN "Allow"
        ELSE rules[CHOOSE i \in hits : \A j \in hits : i <= j].action

\* self.once.remove(&pattern)
OnceKept(onceSet, pattern) == onceSet
OnceRemove(onceSet, pattern) == onceSet \ {pattern}

Answer(decision, tier, consumed) ==
    [decision |-> decision, tier |-> tier, consumed |-> consumed]

\* PermissionOverrides::decide, with the pattern `chosen` by best_matching_pattern
\* when the once tier is reached; tier "base" stands for None.
OverridesDecideAlwaysFirst(permission, onceSet, alwaysSet, rejectSet, chosen) ==
    IF \E pattern \in alwaysSet : matches_pattern(pattern, permission)
    THEN Answer("Allow", "always", NoPattern)
    ELSE IF \E pattern \in rejectSet : matches_pattern(pattern, permission)
    THEN Answer("Deny", "reject", NoPattern)
    ELSE IF chosen # NoPattern
    THEN Answer("Allow", "once", chosen)
    ELSE Answer("None", "base", NoPattern)
OverridesDecide(permission, onceSet, alwaysSet, rejectSet, chosen) ==
    IF \E pattern \in rejectSet : matches_pattern(pattern, permission)
    THEN Answer("Deny", "reject", NoPattern)
    ELSE IF \E pattern \in alwaysSet : matches_pattern(pattern, permission)
    THEN Answer("Allow", "always", NoPattern)
    ELSE IF chosen # NoPattern
    THEN Answer("Allow", "once", chosen)
    ELSE Answer("None", "base", NoPattern)

NoDecide ==
    [n |-> 0, permission |-> NoPattern, decision |-> "None", tier |-> "none",
     consumed |-> NoPattern,
     once_before |-> {}, always_before |-> {}, reject_before |-> {},
     once_after |-> {}, always_after |-> {}, reject_after |-> {},
     prev_tier |-> "none", prev_permission |-> NoPattern]

\* PermissionSession::decide (PermissionGate), under the overrides mutex
Decide(permission) ==
    /\ ops < MaxOps
    /\ \E chosen \in best_matching_pattern(once, permission) :
         LET answer == OverridesDecide(permission, once, always, reject, chosen)
             onceAfter == IF answer.tier = "once"
                          THEN OnceRemove(once, answer.consumed)
                          ELSE once
         IN  /\ once' = onceAfter
             /\ lastDecide' =
                    [n |-> lastDecide.n + 1,
                     permission |-> permission,
                     decision |-> IF answer.tier = "base"
                                  THEN PolicyDecide(BaseRules, permission)
                                  ELSE answer.decision,
                     tier |-> answer.tier,
                     consumed |-> answer.consumed,
                     once_before |-> once,
                     always_before |-> always,
                     reject_before |-> reject,
                     once_after |-> onceAfter,
                     always_after |-> always,
                     reject_after |-> reject,
                     prev_tier |-> lastDecide.tier,
                     prev_permission |-> lastDecide.permission]
    /\ ops' = ops + 1
    /\ UNCHANGED <<always, reject>>

\* PermissionSession::apply_reply
ApplyReply(permission, reply) ==
    /\ ops < MaxOps
    /\ once' = IF reply = "Once" THEN once \cup {permission} ELSE once
    /\ always' = IF reply = "Always" THEN always \cup {permission} ELSE always
    /\ reject' = IF reply = "Reject" THEN reject \cup {permission} ELSE reject
    /\ ops' = ops + 1
    /\ UNCHANGED lastDecide

PermInit ==
    /\ once = {}
    /\ always = {}
    /\ reject = {}
    /\ lastDecide = NoDecide
    /\ ops = 0

PermNext ==
    \/ \E permission \in Permissions : Decide(permission)
    \/ \E permission \in Patterns \cup Permissions, reply \in Replies :
          ApplyReply(permission, reply)

(***************************************************************************)
(* CancellationToken.                                                      *)
(***************************************************************************)
NoReason == "none"
Reasons == {"user", "timeout"}

\* GraphError values and Ok, as one record shape.
ToolOk(attachments) ==
    [kind |-> "Ok", message |-> "", permission |-> NoPattern,
     interrupt_ids |-> <<>>, attachments |-> attachments]
ToolErr(kind, message) ==
    [kind |-> kind, message |-> message, permission |-> NoPattern,
     interrupt_ids |-> <<>>, attachments |-> <<>>]
NoResult == ToolErr("none", "")

\* CancellationToken::abort_reason
abort_reason(tokenReason) == IF tokenReason = NoReason THEN "cancelled" ELSE tokenReason

\* ToolContext::check_cancelled / the check that opens ToolExecutor::run
CheckCancelledResult(flag, tokenReason) ==
    IF flag THEN ToolErr("Aborted", abort_reason(tokenReason)) ELSE ToolOk(<<>>)

\* CancellationToken::cancel, first statement: self.cancelled.store(true)
CancelStoreFlag(r) ==
    /\ cancelCall.pc = "idle"
    /\ cancelled' = TRUE
    /\ cancelCall' = [pc |-> "stored", reason |-> r]
    /\ UNCHANGED <<reason, lastCheck, toolCall>>
    /\ UNCHANGED permVars

\* CancellationToken::cancel, second statement: *guard = Some(reason)
CancelSetReason ==
    /\ cancelCall.pc = "stored"
    /\ reason' = cancelCall.reason
    /\ cancelCall' = [cancelCall EXCEPT !.pc = "done"]
    /\ UNCHANGED <<cancelled, lastCheck, toolCall>>
    /\ UNCHANGED permVars

\* ToolContext::check_cancelled, on another thread than the one cancelling
CheckCancelled ==
    /\ ops < MaxOps
    /\ lastCheck' = [n |-> lastCheck.n + 1,
                     result |-> CheckCancelledResult(cancelled, reason)]
    /\ ops' = ops + 1
    /\ UNCHANGED <<cancelled, reason, cancelCall, toolCall>>
    /\ UNCHANGED <<once, always, reject, lastDecide>>

(***************************************************************************)
(* Tool invocation: ToolExecutor::run, LoopContext::run_tool,              *)
(* ToolRegistry::run_with_events and ToolRunner::run_with_events.          *)
(***************************************************************************)
Tools == {"a", "b", "c"}
Registered == {"a", "b"}

\* format!("tool:{}", call.tool): the character "t" stands for the prefix.
ToolPermission(tool) == <<"t", tool>>
\* format!("permission:{}", permission)
InterruptId(permission) == <<"permission:">> \o permission

\* Event values of the tool path, as one record shape.
ToolEvent(type, detail, tool) == [type |-> type, detail |-> detail, tool |-> tool]
ToolStatus(state, tool) == ToolEvent("ToolStatus", state, tool)

\* An event sink whose write number failAt (0: never) returns an error.
SinkStart == [events |-> <<>>, writes |-> 0, failed |-> FALSE]
SinkEmit(sink, event, failAt) ==
    IF sink.writes + 1 = failAt
    THEN [sink EXCEPT !.writes = @ + 1, !.failed = TRUE]
    ELSE [sink EXCEPT !.writes = @ + 1, !.events = Append(@, event)]
SinkError == ToolErr("ExecutionError", "sink write failed")

\* sink.emit(e1)?; sink.emit(e2)?; ... : the writes stop at the first failure.
RECURSIVE EmitAll(_, _, _)
EmitAll(sink, events, failAt) ==
    IF events = <<>> \/ sink.failed THEN sink
    ELSE EmitAll(SinkEmit(sink, Head(events), failAt), Tail(events), failAt)

\* Attachments a handler can return.
Attachment(mime_type, payload) == [mime_type |-> mime_type, payload |-> payload]
Attachments ==
    {Attachment("text/plain", "inline-small"),
     Attachment("text/plain", "inline-large"),
     Attachment("", "inline-small")}
Stores == {"none", "ok"}

\* normalize_attachment
normalize_attachment(store, attachment) ==
    IF attachment.mime_type = ""
    THEN [ok |-> FALSE, error |-> "attachment mime_type missing", attachment |-> attachment]
    ELSE IF attachment.payload = "inline-small" \/ attachment.payload = "reference"
    THEN [ok |-> TRUE, error |-> "", attachment |-> attachment]
    ELSE IF store = "none"
    THEN [ok |-> FALSE, error |-> "attachment store unavailable", attachment |-> attachment]
    ELSE [ok |-> TRUE, error |-> "",
          attachment |-> Attachment(attachment.mime_type, "reference")]

\* process_attachments: the first failure ends the loop
RECURSIVE process_attachments(_, _, _)
process_attachments(store, attachments, processed) ==
    IF attachments = <<>> THEN [ok |-> TRUE, error |-> "", attachments |-> processed]
    ELSE LET norm == normalize_attachment(store, Head(attachments)) IN
         IF norm.ok
         THEN process_attachments(store, Tail(attachments), Append(processed, norm.attachment))
         ELSE [ok |-> FALSE, error |-> norm.error, attachments |-> <<>>]

\* What a tool handler returns: Ok(output) with its attachments, or an error.
HandlerOk(attachments) == [ok |-> TRUE, error |-> "", attachments |-> attachments]
HandlerErr(message) == [ok |-> FALSE, error |-> message, attachments |-> <<>>]
AttachmentLists ==
    UNION {[1..n -> Attachments] : n \in 0..MaxAttachments}
HandlerOutcomes ==
    {HandlerOk(attachments) : attachments \in AttachmentLists} \cup {HandlerErr("boom")}

AttachmentEvents(attachments, tool) ==
    [i \in 1..Len(attachments) |-> ToolEvent("ToolAttachment", attachments[i].payload, tool)]

Ran(result, sink, handler_ran) ==
    [result |-> result, events |-> sink.events, writes |-> sink.writes,
     sink_failed |-> sink.failed, handler_ran |-> handler_ran]

\* Mutants of the closing emissions, for the lifecycle claims.
CompletedEventsResultFirst(attachments, tool) ==
    <<ToolEvent("ToolResult", "", tool), ToolStatus("Completed", tool)>>
        \o AttachmentEvents(attachments, tool)
CompletedEvents(attachments, tool) ==
    <<ToolStatus("Completed", tool)>>
        \o AttachmentEvents(attachments, tool)
        \o <<ToolEvent("ToolResult", "", tool)>>
ErrorEventsWithResult(message, tool) ==
    <<ToolStatus("Error", tool), ToolEvent("ToolError", message, tool),
      ToolEvent("ToolResult", "", tool)>>
ErrorEvents(message, tool) ==
    <<ToolStatus("Error", tool), ToolEvent("ToolError", message, tool)>>
OpeningEvents(tool) ==
    <<ToolStatus("Pending", tool), ToolEvent("ToolStart", "", tool),
      ToolStatus("Running", tool)>>

\* Whether the handler future is run after the three opening emissions.
HandlerRunsDespiteSinkError(opening) == TRUE
HandlerRuns(opening) == ~opening.failed

\* ToolRunner::run_with_events up to `run(call, context).await`: the three
\* opening emissions.  A result of kind "none" means the handler future runs.
RunOpening(tool, failAt) ==
    LET opening == EmitAll(SinkStart, OpeningEvents(tool), failAt) IN
    IF HandlerRuns(opening) THEN Ran(NoResult, opening, TRUE)
    ELSE Ran(SinkError, opening, FALSE)

\* ToolRunner::run_with_events from the handler's result on: the match on it.
RunClosing(opening, tool, outcome, store, failAt) ==
    IF outcome.ok
    THEN LET norm == process_attachments(store, outcome.attachments, <<>>) IN
         IF norm.ok
         THEN LET closing == EmitAll(opening, CompletedEvents(norm.attachments, tool), failAt)
              IN  IF closing.failed THEN Ran(SinkError, closing, TRUE)
                  ELSE Ran(ToolOk(norm.attachments), closing, TRUE)
         ELSE LET closing == EmitAll(opening, ErrorEvents(norm.error, tool), failAt)
              IN  IF closing.failed THEN Ran(SinkError, closing, TRUE)
                  ELSE Ran(ToolErr("ExecutionError", norm.error), closing, TRUE)
    ELSE LET closing == EmitAll(opening, ErrorEvents(outcome.error, tool), failAt)
         IN  IF closing.failed THEN Ran(SinkError, closing, TRUE)
             ELSE Ran(ToolErr("ExecutionError", outcome.error), closing, TRUE)

\* ToolRegistry::run_with_events: the handler lookup, then the runner
RegistryRunWithEvents(tool, failAt) ==
    IF tool \notin Registered
    THEN Ran(ToolErr("ExecutionError", "tool not found"), SinkStart, FALSE)
    ELSE RunOpening(tool, failAt)

PermissionDenied(permission) ==
    [kind |-> "PermissionDenied", message |-> "permission denied",
     permission |-> permission, interrupt_ids |-> <<>>, attachments |-> <<>>]
PermissionInterruptBareId(permission) ==
    [kind |-> "Interrupted", message |-> "", permission |-> permission,
     interrupt_ids |-> <<permission>>, attachments |-> <<>>]
PermissionInterrupt(permission) ==
    [kind |-> "Interrupted", message |-> "", permission |-> permission,
     interrupt_ids |-> <<InterruptId(permission)>>, attachments |-> <<>>]

\* ToolExecutor::run after the cancellation check: the match on gate.decide
ExecutorAfterGate(decision, tool, failAt) ==
    IF decision = "Allow" THEN RegistryRunWithEvents(tool, failAt)
    ELSE IF decision = "Ask"
    THEN LET asked == SinkEmit(SinkStart, ToolEvent("PermissionAsked", "", tool), failAt)
         IN  IF asked.failed THEN Ran(SinkError, asked, FALSE)
             ELSE Ran(PermissionInterrupt(ToolPermission(tool)), asked, FALSE)
    ELSE Ran(PermissionDenied(ToolPermission(tool)), SinkStart, FALSE)

\* LoopContext::run_tool: the match on gate.decide; LoopContext::emit returns
\* nothing, so the PermissionAsked write cannot end the call.
LoopAfterGate(decision, tool, failAt) ==
    IF decision = "Allow" THEN RegistryRunWithEvents(tool, failAt)
    ELSE IF decision = "Ask"
    THEN Ran(PermissionInterrupt(ToolPermission(tool)),
             SinkEmit(SinkStart, ToolEvent("PermissionAsked", "", tool), 0), FALSE)
    ELSE Ran(ToolErr("ExecutionError", "permission denied"), SinkStart, FALSE)

NoOutcome == HandlerErr("")
\* The record of a call; phase "handler" while the handler future is running.
Call(path, tool, cancelled_at_start, decision, once_before, ran) ==
    [n |-> toolCall.n + 1, path |-> path, tool |-> tool,
     phase |-> IF ran.result = NoResult THEN "handler" ELSE "returned",
     cancelled_at_start |-> cancelled_at_start, decision |-> decision,
     once_before |-> once_before, outcome |-> NoOutcome, store |-> "none",
     handler_ran |-> ran.handler_ran, events |-> ran.events,
     writes |-> ran.writes, sink_failed |-> ran.sink_failed,
     result |-> ran.result]
NoToolCall ==
    [n |-> 0, path |-> "none", tool |-> "", phase |-> "returned",
     cancelled_at_start |-> FALSE,
     decision |-> "none", once_before |-> {}, outcome |-> NoOutcome,
     store |-> "none", handler_ran |-> FALSE, events |-> <<>>, writes |-> 0, sink_failed |-> FALSE,
     result |-> NoResult]

\* Whether ToolExecutor::run consults the gate although the token is cancelled.
GateConsultedWhenCancelled(flag) == FALSE
CancelledBeforeGate(flag) == flag

\* ToolExecutor::run, up to the point where the handler future is awaited
ToolExecutorRun(tool, failAt) ==
    /\ ops < MaxOps
    /\ toolCall.phase = "returned"
    /\ IF CancelledBeforeGate(cancelled)
       THEN /\ toolCall' = Call("executor", tool, TRUE, "none", once,
                                 Ran(CheckCancelledResult(cancelled, reason),
                                     SinkStart, FALSE))
            /\ ops' = ops + 1
            /\ UNCHANGED <<once, always, reject, lastDecide>>
       ELSE /\ Decide(ToolPermission(tool))
            /\ toolCall' = Call("executor", tool, cancelled, lastDecide'.decision, once,
                                 ExecutorAfterGate(lastDecide'.decision, tool, failAt))
    /\ UNCHANGED <<cancelled, reason, cancelCall, lastCheck>>

\* LoopContext::run_tool, which holds no cancellation token, up to the point
\* where the handler future is awaited
LoopRunTool(tool, failAt) ==
    /\ toolCall.phase = "returned"
    /\ Decide(ToolPermission(tool))
    /\ toolCall' = Call("loop", tool, FALSE, lastDecide'.decision, once,
                        LoopAfterGate(lastDecide'.decision, tool, failAt))
    /\ UNCHANGED <<cancelled, reason, cancelCall, lastCheck>>

\* The handler future completes and ToolRunner::run_with_events finishes.
HandlerReturns(outcome, store, failAt) ==
    /\ toolCall.phase = "handler"
    /\ LET opening == [events |-> toolCall.events, writes |-> toolCall.writes,
                       failed |-> FALSE]
           ran == RunClosing(opening, toolCall.tool, outcome, store, failAt)
       IN  toolCall' = [toolCall EXCEPT !.phase = "returned",
                                        !.outcome = outcome,
                                        !.store = store,
                                        !.events = ran.events,
                                        !.writes = ran.writes,
                                        !.sink_failed = ran.sink_failed,
                                        !.result = ran.result]
    /\ UNCHANGED <<cancelled, reason, cancelCall, lastCheck>>
    /\ UNCHANGED permVars

\* LoopContext::reply_permission: gate.apply_reply(permission, reply)
ReplyPatterns == {<<"t", "a">>, <<"t", Star>>}
ReplyPermission(permission, reply) ==
    /\ ApplyReply(permission, reply)
    /\ UNCHANGED toolVars

ToolInit ==
    /\ cancelled = FALSE
    /\ reason = NoReason
    /\ cancelCall = [pc |-> "idle", reason |-> NoReason]
    /\ lastCheck = [n |-> 0, result |-> NoResult]
    /\ toolCall = NoToolCall

\* The writes of one call that can fail: 0 stands for none.
OpeningWrites == 0..3
ClosingWrites == {0} \cup (4..(4 + MaxAttachments + 1))

ToolNext ==
    \/ \E r \in Reasons : CancelStoreFlag(r)
    \/ CancelSetReason
    \/ ops < MaxToolOps /\ CheckCancelled
    \/ /\ ops < MaxToolOps
       /\ \E permission \in ReplyPatterns, reply \in Replies :
             ReplyPermission(permission, reply)
    \/ /\ ops < MaxToolOps
       /\ \E tool \in Tools, failAt \in OpeningWrites : ToolExecutorRun(tool, failAt)
    \/ /\ ops < MaxToolOps
       /\ \E tool \in Tools, failAt \in OpeningWrites : LoopRunTool(tool, failAt)
    \/ \E outcome \in HandlerOutcomes, store \in Stores, failAt \in ClosingWrites :
          HandlerReturns(outcome, store, failAt)

(***************************************************************************)
(* Run lifecycle events: invoke_resumable and resume with a run-event sink *)
(* configured (ExecutionConfig::with_run_event_sink).                      *)
(***************************************************************************)
AbortReason == "stop"
RunEvent(type, run_id, checkpoint_id, detail) ==
    [type |-> type, run_id |-> run_id, checkpoint_id |-> checkpoint_id,
     detail |-> detail]

\* The states invoke_resumable is given: the tool of the first node works,
\* aborts, or fails.
InitialStates == {[InitialState EXCEPT !.fault = f] : f \in {"none", "abort", "fail"}}

\* match &result { .. }: the closing event of invoke_resumable and resume
ClosingEventAlwaysCompleted(run_id, res) == RunEvent("RunCompleted", run_id, 0, "")
ClosingEvent(run_id, res) ==
    IF res.kind = "Complete" THEN RunEvent("RunCompleted", run_id, 0, "")
    ELSE IF res.kind = "Interrupted"
    THEN RunEvent("RunPaused", run_id, res.checkpoint.checkpoint_id, "")
    ELSE IF res.error = "Aborted" THEN RunEvent("RunAborted", run_id, 0, AbortReason)
    ELSE RunEvent("RunFailed", run_id, 0, res.error)

SinkFailed(log) == Result("Err", "SinkError", InitialState, NoCheckpoint, log)

\* emit_run_event(first)?; run_with_checkpoint; emit_run_event(closing)?; result
RunEmitting(first, run_id, res, failAt) ==
    LET started == SinkEmit(SinkStart, first, failAt) IN
    IF started.failed THEN [result |-> SinkFailed(<<>>), sink |-> started]
    ELSE LET closing == SinkEmit(started, ClosingEvent(run_id, res), failAt) IN
         IF closing.failed THEN [result |-> SinkFailed(res.log), sink |-> closing]
         ELSE [result |-> res, sink |-> closing]

NoRunCall == [n |-> 0, op |-> "none", run_id |-> 0, from_checkpoint |-> 0,
              events |-> <<>>, sink_failed |-> FALSE]

\* CompiledGraph::invoke_resumable with a run-event sink
InvokeResumableWithSink(initial_state, failAt) ==
    /\ runs < MaxSinkRuns
    /\ last.n < MaxSinkCalls
    /\ LET run_id == runs + 1
           res == Stamp(RunWithCheckpoint(run_id, initial_state, START, 0,
                                          [k \in Keys |-> Absent]),
                        FreshCheckpointId(checkpoints))
           out == RunEmitting(RunEvent("RunStarted", run_id, 0, ""), run_id, res, failAt)
           call == [op |-> "invoke", n |-> last.n + 1, from |-> 0,
                    command |-> NoCommand, result |-> out.result]
       IN  /\ out.result.kind = "Interrupted" => Len(checkpoints) < MaxCheckpoints
           /\ checkpoints' = Returned(call)
           /\ origin' = IF out.result.kind = "Interrupted"
                        THEN Append(origin, run_id) ELSE origin
           /\ last' = call
           /\ runCall' = [n |-> runCall.n + 1, op |-> "invoke", run_id |-> run_id,
                          from_checkpoint |-> 0,
                          events |-> out.sink.events, sink_failed |-> out.sink.failed]
    /\ runs' = runs + 1
    /\ UNCHANGED memo

\* CompiledGraph::resume with a run-event sink
ResumeWithSink(c, command, failAt) ==
    LET checkpoint == checkpoints[c]
        resume_values == MergeResumeValues(checkpoint, command)
        res == Stamp(RunWithCheckpoint(checkpoint.run_id, checkpoint.state,
                                       checkpoint.next_node, checkpoint.iterations,
                                       resume_values),
                     FreshCheckpointId(checkpoints))
        out == RunEmitting(RunEvent("RunResumed", checkpoint.run_id,
                                    checkpoint.checkpoint_id, ""),
                           checkpoint.run_id, res, failAt)
        call == [op |-> "resume", n |-> last.n + 1, from |-> c,
                 command |-> command, result |-> out.result]
    IN  /\ last.n < MaxSinkCalls
        /\ out.result.kind = "Interrupted" => Len(checkpoints) < MaxCheckpoints
        /\ checkpoints' = Returned(call)
        /\ origin' = IF out.result.kind = "Interrupted"
                     THEN Append(origin, origin[c]) ELSE origin
        /\ last' = call
        /\ runCall' = [n |-> runCall.n + 1, op |-> "resume",
                       run_id |-> checkpoint.run_id,
                       from_checkpoint |-> checkpoint.checkpoint_id,
                       events |-> out.sink.events, sink_failed |-> out.sink.failed]
        /\ UNCHANGED <<runs, memo>>

RunInit ==
    /\ origin = <<>>
    /\ runCall = NoRunCall

RunNext ==
    \/ \E initial_state \in InitialStates, failAt \in 0..2 :
          InvokeResumableWithSink(initial_state, failAt)
    \/ \E c \in 1..Len(checkpoints), command \in Commands, failAt \in 0..2 :
          ResumeWithSink(c, command, failAt)

(***************************************************************************)
(* The execution loop of CompiledGraph::invoke_with_metrics (the same loop *)
(* as in run_with_checkpoint) on a graph START -> 1 -> 2 -> .. -> path_len, *)
(* whose last node leads to END, or back to node 1 when the graph is       *)
(* cyclic.  Node 0 stands for END.                                         *)
(***************************************************************************)
\* get_next_node on the chain graph
ChainNext(current, path_len, cyclic) ==
    IF current < path_len THEN current + 1
    ELSE IF cyclic /\ path_len > 0 THEN 1
    ELSE 0

Invoke(limit, path_len, cyclic, masked) ==
    [max_iterations |-> limit, path_len |-> path_len, cyclic |-> cyclic,
     masked |-> masked, current_node |-> ChainNext(0, path_len, FALSE),
     iterations |-> 0, executed |-> 0, result |-> "running"]

\* One pass through the body of the while loop
LoopIteration ==
    /\ iter.result = "running"
    /\ iter.current_node # 0
    /\ iter.iterations < iter.max_iterations
    /\ iter' = [iter EXCEPT
                  !.iterations = @ + 1,
                  !.executed = IF iter.current_node \in iter.masked THEN @ ELSE @ + 1,
                  !.current_node = ChainNext(iter.current_node, iter.path_len,
                                             iter.cyclic)]

\* The loop condition is false: the check that follows the loop
LoopExit ==
    /\ iter.result = "running"
    /\ ~(iter.current_node # 0 /\ iter.iterations < iter.max_iterations)
    /\ iter' = [iter EXCEPT
                  !.result = IF iter.iterations >= iter.max_iterations
                             THEN "MaxIterationsExceeded"
                             ELSE "Complete"]

IterIdle == iter = Invoke(1, 0, FALSE, {})
IterInit ==
    \E limit \in 1..MaxIterationLimit, path_len \in 0..MaxPathLen :
        \E cyclic \in (IF path_len > 0 THEN BOOLEAN ELSE {FALSE}),
           masked \in SUBSET (1..path_len) :
            iter = Invoke(limit, path_len, cyclic, masked)
IterNext == LoopIteration \/ LoopExit

(***************************************************************************)
(* Next-node resolution, CompiledGraph::get_next_node, on any list of      *)
(* outgoing edges in insertion order.                                      *)
(***************************************************************************)
Conditional(branch_name) == [kind |-> "Conditional", to |-> branch_name]
RouteNodes == {"a", "b"}
RouteKeys == {"a", "b", "z"}
BranchNames == {"by_map", "by_key"}
RouteOk(node) == [kind |-> "Ok", node |-> node]
RouteErr(error) == [kind |-> "Err", node |-> error]

\* The branch by_map resolves its key through a static map, by_key uses the
\* key itself as the node name.
PathMap == [k \in {"a", "b"} |-> IF k = "a" THEN "b" ELSE "a"]
evaluate_branch(branch_name, key) ==
    IF branch_name = "by_map"
    THEN IF key \in DOMAIN PathMap THEN RouteOk(PathMap[key])
         ELSE RouteErr("BranchError")
    ELSE RouteOk(key)

RouteEdges == {Direct(to) : to \in RouteNodes} \cup {Conditional(b) : b \in BranchNames}
\* self.edges.get(current): None, or Some(list)
SomeEdges(list) == [some |-> TRUE, list |-> list]
NoEdges == [some |-> FALSE, list |-> <<>>]
EdgeLists == {SomeEdges(l) : l \in UNION {[1..n -> RouteEdges] : n \in 0..MaxEdges}}

\* The first edge of the list decides, whatever its kind
RECURSIVE EdgeScanFirstEdge(_, _, _, _)
EdgeScanFirstEdge(edges, i, direct, key) ==
    IF i > Len(edges) THEN RouteOk(IF direct = NoId THEN END ELSE direct)
    ELSE IF edges[i].kind = "Conditional" /\ direct = NoId
         THEN evaluate_branch(edges[i].to, key)
    ELSE EdgeScanFirstEdge(edges, i + 1,
                           IF direct = NoId THEN edges[i].to ELSE direct, key)

\* The for loop over the edges: a conditional edge returns at once, the first
\* direct edge is remembered
RECURSIVE EdgeScan(_, _, _, _)
EdgeScan(edges, i, direct, key) ==
    IF i > Len(edges) THEN RouteOk(IF direct = NoId THEN END ELSE direct)
    ELSE IF edges[i].kind = "Conditional" THEN evaluate_branch(edges[i].to, key)
    ELSE EdgeScan(edges, i + 1, IF direct = NoId THEN edges[i].to ELSE direct, key)

get_next_node(edges, next, key) ==
    IF next # NoId THEN RouteOk(next)
    ELSE IF ~edges.some THEN RouteOk(END)
    ELSE IF edges.list = <<>> THEN RouteOk(END)
    ELSE EdgeScan(edges.list, 1, NoId, key)

NoRouteCall == [n |-> 0, edges |-> NoEdges, next |-> NoId, key |-> "a",
                result |-> RouteOk(NoId)]

GetNextNodeCall(edges, next, key) ==
    route' = [n |-> 1, edges |-> edges, next |-> next, key |-> key,
              result |-> get_next_node(edges, next, key)]

RouteIdle == route = NoRouteCall
RouteInit == route = NoRouteCall
RouteNext ==
    \E edges \in EdgeLists \cup {NoEdges}, next \in RouteNodes \cup {NoId},
       key \in RouteKeys :
        GetNextNodeCall(edges, next, key)

(***************************************************************************)
(* Node masking.  The loops of invoke_with_metrics, stream, stream_events  *)
(* and run_with_checkpoint on the graph                                    *)
(*   START -> a,  a -> (branch by_key on state.route),  b -> c,  c -> END  *)
(* whose handlers append their own name to state.visited.                  *)
(***************************************************************************)
Modes == {"invoke_with_metrics", "stream", "stream_events", "run_with_checkpoint"}
WalkNodes == {"a", "b", "c"}
WalkEdges ==
    [n \in WalkNodes \cup {START} |->
        CASE n = START -> SomeEdges(<<Direct("a")>>)
          [] n = "a" -> SomeEdges(<<Conditional("by_key")>>)
          [] n = "b" -> SomeEdges(<<Direct("c")>>)
          [] n = "c" -> SomeEdges(<<Direct(END)>>)]
walk_max_iterations == 4

WalkState(next, key) == [visited |-> <<>>, next |-> next, route |-> key]
\* The handler of every node
execute(node, state) == [state EXCEPT !.visited = Append(@, node)]
WalkNextNode(current, state) ==
    get_next_node(WalkEdges[current], state.next, state.route).node

\* The state after one pass of the loop body over `node`
StepStateIgnoringMask(node, state, masked) == execute(node, state)
StepState(node, state, masked) ==
    IF node \in masked THEN state ELSE execute(node, state)

NoStep == [n |-> 0, node |-> NoId, masked |-> FALSE, before |-> WalkState(NoId, "b"),
           after |-> WalkState(NoId, "b"), to |-> NoId]
StartWalk(mode, masked, state) ==
    [mode |-> mode, masked |-> masked, state |-> state,
     current_node |-> WalkNextNode(START, state), iterations |-> 0,
     skipped |-> <<>>, callbacks |-> <<>>, status |-> "running", step |-> NoStep]

\* One pass through the loop body: a masked node is skipped, any other node
\* is executed; then the next node is resolved from the current one.
WalkStep ==
    /\ walk.status = "running"
    /\ walk.current_node # END
    /\ walk.iterations < walk_max_iterations
    /\ LET node == walk.current_node
           is_masked == node \in walk.masked
           after == StepState(node, walk.state, walk.masked)
           to == WalkNextNode(node, after)
       IN walk' = [walk EXCEPT
                     !.iterations = @ + 1,
                     !.state = after,
                     !.current_node = to,
                     !.skipped = IF is_masked /\ walk.mode = "invoke_with_metrics"
                                 THEN Append(@, node) ELSE @,
                     !.callbacks = IF ~is_masked /\ walk.mode = "stream"
                                   THEN Append(@, node) ELSE @,
                     !.step = [n |-> walk.step.n + 1, node |-> node,
                               masked |-> is_masked, before |-> walk.state,
                               after |-> after, to |-> to]]

WalkExit ==
    /\ walk.status = "running"
    /\ ~(walk.current_node # END /\ walk.iterations < walk_max_iterations)
    /\ walk' = [walk EXCEPT
                  !.status = IF walk.iterations >= walk_max_iterations
                             THEN "MaxIterationsExceeded" ELSE "Complete"]

WalkIdle == walk = StartWalk("stream", {}, WalkState(NoId, "b"))
WalkInit ==
    \E mode \in Modes, masked \in SUBSET WalkNodes,
       next \in {NoId, "b", "c"}, key \in {"b", "c"} :
        walk = StartWalk(mode, masked, WalkState(next, key))
WalkNext == WalkStep \/ WalkExit

(***************************************************************************)
(* RecordingSink::emit called by one thread, call after call, with the     *)
(* record sink and the user sink each free to refuse a write.              *)
(***************************************************************************)
EmitEvents == {"TextDelta", "ToolStart"}
EmitOk == "Ok"
EmitErr == "Err"

\* record.clone() as handed to the record sink
ClonedRecordRestamped(record) == [record EXCEPT !.seq = record.seq + 1]
ClonedRecord(record) == record

\* What one emit wrote where, and what it returned.  `steps` lists the writes
\* in the order they were made; the user sink receives the plain event, `seq`
\* in its entry only tells which emit wrote it.
RecordingEmit(sink, event, record_ok, inner_ok) ==
    LET record == EventRecord(event, SequencerAdvance(sink.next_seq), "id-a")
        pushed == [sink EXCEPT !.next_seq = SequencerAdvance(@),
                               !.history = Append(@, record)]
        record_fails == sink.record_sink /\ ~record_ok
        recorded == IF sink.record_sink /\ record_ok
                    THEN [pushed EXCEPT !.delivered = Append(@, ClonedRecord(record))]
                    ELSE pushed
        forwarded_to == IF ~record_fails /\ inner_ok
                        THEN [recorded EXCEPT
                                !.forwarded = Append(@, [event |-> event,
                                                         seq |-> record.seq])]
                        ELSE recorded
        steps == <<"record", "history">>
                 \o (IF sink.record_sink /\ record_ok THEN <<"record_sink">> ELSE <<>>)
                 \o (IF ~record_fails /\ inner_ok THEN <<"inner">> ELSE <<>>)
    IN [forwarded_to EXCEPT
          !.results = Append(@, [record |-> record, steps |-> steps,
                                 result |-> IF record_fails \/ ~inner_ok
                                            THEN EmitErr ELSE EmitOk])]

NewRecordingSink(record_sink) ==
    [record_sink |-> record_sink, next_seq |-> 0, history |-> <<>>,
     delivered |-> <<>>, forwarded |-> <<>>, results |-> <<>>]

Emit(event, record_ok, inner_ok) ==
    /\ Len(rsink.results) < MaxEmitCalls
    /\ rsink' = RecordingEmit(rsink, event, record_ok, inner_ok)

EmitIdle == rsink = NewRecordingSink(FALSE)
EmitInit == \E record_sink \in BOOLEAN : rsink = NewRecordingSink(record_sink)
EmitNext ==
    \E event \in EmitEvents, record_ok \in BOOLEAN, inner_ok \in BOOLEAN :
        Emit(event, record_ok, inner_ok)

(***************************************************************************)
(* prune_tool_events on any short list of events.  An event is its type    *)
(* and an id that tells the events of one list apart.                      *)
(***************************************************************************)
PruneEventTypes ==
    {"ToolStart", "ToolResult", "ToolError", "ToolStatus", "TextDelta", "StepFinish"}
is_tool_event(event) ==
    event.type \in {"ToolStart", "ToolResult", "ToolError", "ToolStatus"}
PrunePolicy(enabled, keep_tool_events) ==
    [enabled |-> enabled, keep_tool_events |-> keep_tool_events]

\* The order in which the first loop visits the indices
ScanOrderForward(len) == [k \in 1..len |-> k]
ScanOrder(len) == [k \in 1..len |-> len + 1 - k]

\* for (idx, event) in events.iter().enumerate().rev(): the indices to keep
RECURSIVE KeepToolIndices(_, _, _, _, _, _)
KeepToolIndices(events, order, k, seen, keep, limit) ==
    IF k > Len(order) THEN keep
    ELSE LET idx == order[k]
         IN IF is_tool_event(events[idx])
            THEN KeepToolIndices(events, order, k + 1, seen + 1,
                                 IF seen + 1 <= limit THEN keep \cup {idx} ELSE keep,
                                 limit)
            ELSE KeepToolIndices(events, order, k + 1, seen, keep, limit)

Swap(v, i, j) == [v EXCEPT ![i] = v[j], ![j] = v[i]]

\* Vec::retain_with_index: kept elements are swapped down over the deleted
\* ones, then the vector is truncated
RECURSIVE RetainWithIndex(_, _, _, _)
RetainWithIndex(v, i, del, keep) ==
    IF i > Len(v) THEN SubSeq(v, 1, Len(v) - del)
    ELSE IF ~(~is_tool_event(v[i]) \/ i \in keep)
         THEN RetainWithIndex(v, i + 1, del + 1, keep)
    ELSE IF del > 0 THEN RetainWithIndex(Swap(v, i - del, i), i + 1, del, keep)
    ELSE RetainWithIndex(v, i + 1, del, keep)

prune_tool_events(events, policy) ==
    IF ~policy.enabled THEN [events |-> events, pruned |-> 0]
    ELSE LET keep_tool_indices ==
                 KeepToolIndices(events, ScanOrder(Len(events)), 1, 0, {},
                                 policy.keep_tool_events)
             after == RetainWithIndex(events, 1, 0, keep_tool_indices)
         IN [events |-> after, pruned |-> Len(events) - Len(after)]

EventLists ==
    UNION {{[i \in 1..n |-> [type |-> types[i], id |-> i]] :
               types \in [1..n -> PruneEventTypes]} : n \in 0..MaxEvents}

PruneInput(events, policy) ==
    [before |-> events, policy |-> policy, events |-> events, pruned |-> 0,
     done |-> FALSE]

PruneToolEvents ==
    /\ ~prune.done
    /\ LET result == prune_tool_events(prune.events, prune.policy)
       IN prune' = [prune EXCEPT !.events = result.events,
                                 !.pruned = result.pruned,
                                 !.done = TRUE]

PruneIdle == prune = PruneInput(<<>>, PrunePolicy(FALSE, 0))
PruneInit ==
    \E events \in EventLists, enabled \in BOOLEAN, keep \in 0..MaxKeep :
        prune = PruneInput(events, PrunePolicy(enabled, keep))
PruneNext == PruneToolEvents

(***************************************************************************)
(* CompiledGraph::stream_events on a chain of stream nodes: what follows   *)
(* each executed node (snapshot message, prune, compaction, prune).        *)
(***************************************************************************)
\* What a stream handler emits through the sink it is given
Emissions == {<<>>, <<"TextDelta">>, <<"ToolStart", "ToolResult">>}
NoMax == -1
\* ExecutionConfig: prune_policy, prune_before_compaction, event_history,
\* session_snapshot, compaction_policy (enabled with max_messages, or disabled)
StreamConfigs ==
    [prune_enabled : BOOLEAN, keep_tool_events : {0, 1},
     prune_before_compaction : BOOLEAN, event_history : BOOLEAN,
     session_snapshot : BOOLEAN, max_messages : {NoMax, 0, 1}]

use_history(config) == config.prune_enabled \/ config.event_history

\* The policy triggering already at max_messages
should_compact_at_threshold(config, message_count) ==
    IF config.max_messages = NoMax THEN FALSE
    ELSE message_count >= config.max_messages

\* CompactionPolicy::should_compact_with_usage with no token trigger configured
should_compact_with_usage(config, message_count) ==
    IF config.max_messages = NoMax THEN FALSE
    ELSE message_count > config.max_messages

\* resolve_message_count
resolve_message_count(s) ==
    IF s.config.session_snapshot THEN s.messages ELSE Len(s.history)

\* sink.emit(event): through the RecordingSink when there is one.  The record
\* is pushed to the history before the user sink is written.
StreamEmit(s, type, inner_ok) ==
    LET recorded == IF use_history(s.config)
                    THEN [s EXCEPT !.history = Append(@, [type |-> type, id |-> s.next_id]),
                                   !.next_id = @ + 1]
                    ELSE s
    IN IF inner_ok THEN [recorded EXCEPT !.user = Append(@, type)]
       ELSE [recorded EXCEPT !.failed = TRUE]

RECURSIVE StreamEmitAll(_, _)
StreamEmitAll(s, types) ==
    IF types = <<>> THEN s
    ELSE StreamEmitAll(StreamEmit(s, Head(types), TRUE), Tail(types))

Did(s, op) == [s EXCEPT !.ops = Append(@, op)]

\* if use_history && prune_policy.enabled && <when>: prune_tool_events
PruneNever(s, when) == s
PruneStep(s, when) ==
    IF use_history(s.config) /\ s.config.prune_enabled /\ when
    THEN Did([s EXCEPT !.history =
                  prune_tool_events(s.history,
                                    PrunePolicy(TRUE, s.config.keep_tool_events)).events],
             "prune")
    ELSE s

\* The compaction block: measure, evaluate the policy, call the hook, emit
CompactionStep(s, summary, emit_ok) ==
    LET message_count == resolve_message_count(s)
        measured == Did([s EXCEPT !.message_count = message_count], "measure")
    IN IF should_compact_with_usage(s.config, message_count)
       THEN IF summary
            THEN StreamEmit(Did(Did(Did([measured EXCEPT !.triggered = TRUE],
                                        "before_compaction"),
                                    "after_compaction"),
                                "emit:SessionCompacted"),
                            "SessionCompacted", emit_ok)
            ELSE StreamEmit(Did(Did([measured EXCEPT !.triggered = TRUE],
                                    "before_compaction"),
                                "emit:SessionCompactionRequested"),
                            "SessionCompactionRequested", emit_ok)
       ELSE measured

\* One pass of the loop body over an unmasked node
StreamBody(s, emitted, summary, emit_ok) ==
    LET started == [s EXCEPT !.n = @ + 1, !.ops = <<>>, !.triggered = FALSE,
                             !.emitted = emitted]
        executed == Did(StreamEmitAll(started, emitted), "execute")
        pushed == IF s.config.session_snapshot
                  THEN [executed EXCEPT !.messages = @ + 1] ELSE executed
        unpruned == [pushed EXCEPT !.count_unpruned = resolve_message_count(pushed)]
        pruned == PruneStep(unpruned, s.config.prune_before_compaction)
        compacted == CompactionStep(pruned, summary, emit_ok)
    IN IF compacted.failed THEN [compacted EXCEPT !.status = "Err"]
       ELSE LET finished == PruneStep(compacted, ~s.config.prune_before_compaction)
            IN [finished EXCEPT !.node = @ + 1]

StartStream(config) ==
    [config |-> config, node |-> 1, history |-> <<>>, next_id |-> 1, messages |-> 0,
     user |-> <<>>, status |-> "running", failed |-> FALSE, n |-> 0, ops |-> <<>>,
     emitted |-> <<>>, count_unpruned |-> 0, message_count |-> 0, triggered |-> FALSE]

StreamNode(emitted, summary, emit_ok) ==
    /\ stream.status = "running"
    /\ stream.node <= MaxStreamNodes
    /\ stream' = StreamBody(stream, emitted, summary, emit_ok)

StreamExit ==
    /\ stream.status = "running"
    /\ stream.node > MaxStreamNodes
    /\ stream' = [stream EXCEPT !.status = "Complete"]

StreamIdle ==
    stream = StartStream([prune_enabled |-> FALSE, keep_tool_events |-> 0,
                          prune_before_compaction |-> TRUE, event_history |-> FALSE,
                          session_snapshot |-> FALSE, max_messages |-> NoMax])
StreamInit == \E config \in StreamConfigs : stream = StartStream(config)
StreamNext ==
    \/ \E emitted \in Emissions, summary \in BOOLEAN, emit_ok \in BOOLEAN :
          StreamNode(emitted, summary, emit_ok)
    \/ StreamExit

(***************************************************************************)
(* SessionState: the phase machine and the reduction of events.            *)
(***************************************************************************)
Phases ==
    {"UserInput", "ModelThinking", "AssistantStreaming", "ToolProposed",
     "ToolRunning", "ToolResult", "AssistantFinalize", "Completed",
     "Interrupted", "Resumed"}
CallIds == {"c1", "c2"}

\* The match of can_transition with every pair accepted
TransitionTableAll(from, to) == TRUE
\* The match of can_transition
TransitionTable(from, to) ==
    \/ from = "UserInput" /\ to = "ModelThinking"
    \/ from = "ModelThinking" /\ to = "AssistantStreaming"
    \/ from = "AssistantStreaming" /\ to = "ToolProposed"
    \/ from = "AssistantStreaming" /\ to = "AssistantFinalize"
    \/ from = "ToolProposed" /\ to = "ToolRunning"
    \/ from = "ToolRunning" /\ to = "ToolResult"
    \/ from = "ToolResult" /\ to = "AssistantStreaming"
    \/ from = "ToolResult" /\ to = "AssistantFinalize"
    \/ from = "AssistantFinalize" /\ to = "Completed"
    \/ from = "Interrupted" /\ to = "Resumed"
    \/ from = "Resumed" /\ to = "ModelThinking"

\* can_transition without the exception for Completed
can_transition_interrupt_anywhere(phase, next) ==
    IF phase = next THEN TRUE
    ELSE IF next = "Interrupted" THEN TRUE
    ELSE TransitionTable(phase, next)
can_transition(phase, next) ==
    IF phase = next THEN TRUE
    ELSE IF next = "Interrupted" THEN phase # "Completed"
    ELSE TransitionTable(phase, next)

\* format!("invalid transition {:?} -> {:?}", self.phase, next)
InvalidTransition(from, to) == <<"invalid transition", from, "->", to>>
SessionPhaseChanged(from, to) ==
    [type |-> "SessionPhaseChanged", from |-> from, to |-> to]
NoEvent == [type |-> "None", from |-> "", to |-> ""]
TransitionOk(event) == [kind |-> "Ok", event |-> event, message |-> <<>>]
TransitionErr(message) == [kind |-> "Err", event |-> NoEvent, message |-> message]

\* try_transition: the phase afterwards and the result
try_transition(s, next) ==
    IF can_transition(s.phase, next)
    THEN [state |-> [s EXCEPT !.phase = next], result |-> TransitionOk(NoEvent)]
    ELSE [state |-> s, result |-> TransitionErr(InvalidTransition(s.phase, next))]

try_transition_with_event(s, next) ==
    IF s.phase = next THEN [state |-> s, result |-> TransitionOk(NoEvent)]
    ELSE IF can_transition(s.phase, next)
         THEN [state |-> [s EXCEPT !.phase = next],
               result |-> TransitionOk(SessionPhaseChanged(s.phase, next))]
    ELSE [state |-> s, result |-> TransitionErr(InvalidTransition(s.phase, next))]

ToolCallRecord(call_id, status) == [call_id |-> call_id, status |-> status]

\* update_tool_call: the first record with this call_id gets the status
RECURSIVE UpdateFirst(_, _, _, _)
UpdateFirst(tool_calls, i, call_id, status) ==
    IF i > Len(tool_calls) THEN tool_calls
    ELSE IF tool_calls[i].call_id = call_id
         THEN [tool_calls EXCEPT ![i].status = status]
    ELSE UpdateFirst(tool_calls, i + 1, call_id, status)
HasToolCall(tool_calls, call_id) ==
    \E i \in 1..Len(tool_calls) : tool_calls[i].call_id = call_id
update_tool_call(s, call_id, status) ==
    [s EXCEPT !.tool_calls = UpdateFirst(@, 1, call_id, status)]

SessionEvent(type, call_id) == [type |-> type, call_id |-> call_id]
SessionEvents ==
    {SessionEvent("TextDelta", ""), SessionEvent("StepFinish", ""),
     SessionEvent("StepStart", ""), SessionEvent("ToolResult", "c1")}
    \cup {SessionEvent("ToolStart", c) : c \in CallIds}

\* if let Ok(Some(event)) = self.try_transition_with_event(next) { events.push(event) }
AdvanceUnchecked(acc, next) ==
    [state |-> [acc.state EXCEPT !.phase = next],
     events |-> IF acc.state.phase # next
                THEN Append(acc.events, SessionPhaseChanged(acc.state.phase, next))
                ELSE acc.events]
Advance(acc, next) ==
    LET t == try_transition_with_event(acc.state, next)
    IN [state |-> t.state,
        events |-> IF t.result.kind = "Ok" /\ t.result.event # NoEvent
                   THEN Append(acc.events, t.result.event) ELSE acc.events]
PushPart(acc, type, call_id) ==
    [acc EXCEPT !.state.pending_parts = Append(@, [type |-> type, call_id |-> call_id])]

\* ToolStart goes straight for ToolRunning
ToolStartPhasesDirect(acc) == Advance(acc, "ToolRunning")
\* ToolStart: by way of ToolProposed when the phase is AssistantStreaming
ToolStartPhases(acc) ==
    Advance(IF acc.state.phase = "AssistantStreaming"
            THEN Advance(acc, "ToolProposed") ELSE acc,
            "ToolRunning")

apply_event_with_events(s, event) ==
    LET acc == [state |-> s, events |-> <<>>]
    IN CASE event.type \in {"TextDelta", "TextFinal"} ->
              [handled |-> TRUE]
              @@ PushPart(Advance(acc, "AssistantStreaming"), event.type, "")
         [] event.type = "ToolStart" ->
              LET parted == PushPart(ToolStartPhases(acc), "ToolCall", event.call_id)
                  tracked ==
                      IF HasToolCall(parted.state.tool_calls, event.call_id)
                      THEN [parted EXCEPT
                              !.state = update_tool_call(@, event.call_id, "Running")]
                      ELSE [parted EXCEPT
                              !.state.tool_calls =
                                  Append(@, ToolCallRecord(event.call_id, "Running"))]
              IN [handled |-> TRUE] @@ tracked
         [] event.type = "ToolResult" ->
              LET parted == PushPart(Advance(acc, "ToolResult"), "ToolResult",
                                     event.call_id)
              IN [handled |-> TRUE]
                 @@ [parted EXCEPT
                       !.state = update_tool_call(@, event.call_id, "Completed")]
         [] event.type = "ToolError" ->
              LET parted == PushPart(Advance(acc, "ToolResult"), "ToolError",
                                     event.call_id)
              IN [handled |-> TRUE]
                 @@ [parted EXCEPT
                       !.state = update_tool_call(@, event.call_id, "Error")]
         [] event.type = "StepFinish" ->
              [handled |-> TRUE]
              @@ PushPart(Advance(acc, "AssistantFinalize"), "TokenUsage", "")
         [] OTHER -> [handled |-> FALSE] @@ acc

NoSessionCall ==
    [n |-> 0, op |-> "new", arg |-> "", result |-> TransitionOk(NoEvent),
     handled |-> FALSE, events |-> <<>>]
\* SessionState::new followed by one of mark_user_input .. mark_resumed
MarkedSessionState(phase) ==
    [phase |-> phase, pending_parts |-> <<>>, tool_calls |-> <<>>]
SessionCall(op, arg) ==
    [n |-> session.call.n + 1, op |-> op, arg |-> arg,
     result |-> TransitionOk(NoEvent), handled |-> FALSE, events |-> <<>>]

TryTransition(next) ==
    /\ session.call.n < MaxSessionOps
    /\ LET t == try_transition(session.state, next)
       IN session' = [state |-> t.state,
                      call |-> [SessionCall("try_transition", next)
                                  EXCEPT !.result = t.result]]

TryTransitionWithEvent(next) ==
    /\ session.call.n < MaxSessionOps
    /\ LET t == try_transition_with_event(session.state, next)
       IN session' = [state |-> t.state,
                      call |-> [SessionCall("try_transition_with_event", next)
                                  EXCEPT !.result = t.result]]

PushToolCall(call_id) ==
    /\ session.call.n < MaxSessionOps
    /\ session' = [state |-> [session.state EXCEPT
                                !.tool_calls =
                                    Append(@, ToolCallRecord(call_id, "Pending"))],
                   call |-> SessionCall("push_tool_call", call_id)]

ApplyEventWithEvents(event) ==
    /\ session.call.n < MaxSessionOps
    /\ LET r == apply_event_with_events(session.state, event)
       IN session' = [state |-> r.state,
                      call |-> [SessionCall(event.type, event.call_id)
                                  EXCEPT !.handled = r.handled,
                                         !.events = r.events]]

SessionIdle == session = [state |-> MarkedSessionState("UserInput"), call |-> NoSessionCall]
SessionInit ==
    \E phase \in Phases :
        session = [state |-> MarkedSessionState(phase), call |-> NoSessionCall]
SessionNext ==
    \/ \E next \in Phases : TryTransition(next)
    \/ \E next \in Phases : TryTransitionWithEvent(next)
    \/ \E call_id \in CallIds : PushToolCall(call_id)
    \/ \E event \in SessionEvents : ApplyEventWithEvents(event)

(***************************************************************************)
(* Attachment normalization with sizes: normalize_attachment decides by    *)
(* the serialized length of the inline data against max_inline_bytes.      *)
(***************************************************************************)
MimeTypes == {"", " ", "text/plain"}
\* mime_type.trim().is_empty()
TrimIsEmpty(mime_type) == mime_type \in {"", " "}
NoSize == -1
\* ToolAttachment::inline(name, mime_type, data); data_len is the length of
\* serde_json::to_vec(data)
InlineAttachment(mime_type, data_len) ==
    [mime_type |-> mime_type, payload |-> "Inline", data_len |-> data_len,
     reference |-> "", size |-> NoSize]
\* ToolAttachment::reference(name, mime_type, reference, size)
ReferenceAttachment(mime_type, reference, size) ==
    [mime_type |-> mime_type, payload |-> "Reference", data_len |-> 0,
     reference |-> reference, size |-> size]
SizedAttachments ==
    {InlineAttachment(m, len) : m \in MimeTypes, len \in 1..(MaxInlineBytes + 1)}
    \cup {ReferenceAttachment(m, "ref:given", NoSize) : m \in MimeTypes}
\* context.attachment_store(): None, a store that stores, a store that fails
AttachmentStores == {"none", "ok", "failing"}
\* store.store(&attachment) of the storing store
StoreRef(attachment) == <<"ref:stored", attachment.data_len>>

NormOk(attachment) == [ok |-> TRUE, message |-> "", attachment |-> attachment]
NormErr(message, attachment) ==
    [ok |-> FALSE, message |-> message, attachment |-> attachment]

\* size < max_inline_bytes
FitsInlineStrictly(size, max_inline_bytes) == size < max_inline_bytes
\* size <= max_inline_bytes
FitsInline(size, max_inline_bytes) == size <= max_inline_bytes

normalize_sized(max_inline_bytes, store, attachment) ==
    IF TrimIsEmpty(attachment.mime_type)
    THEN NormErr("attachment mime_type missing", attachment)
    ELSE IF attachment.payload = "Reference" THEN NormOk(attachment)
    ELSE LET size == attachment.data_len
         IN IF FitsInline(size, max_inline_bytes)
            THEN NormOk([attachment EXCEPT !.size = size])
            ELSE IF store = "none"
                 THEN NormErr("attachment store unavailable", attachment)
            ELSE IF store = "failing"
                 THEN NormErr("store failed", attachment)
            ELSE NormOk(ReferenceAttachment(attachment.mime_type,
                                            StoreRef(attachment), size))

\* process_attachments: the first attachment that fails ends the loop
RECURSIVE process_sized(_, _, _, _)
process_sized(max_inline_bytes, store, attachments, processed) ==
    IF attachments = <<>>
    THEN [ok |-> TRUE, message |-> "", attachments |-> processed]
    ELSE LET norm == normalize_sized(max_inline_bytes, store, Head(attachments))
         IN IF norm.ok
            THEN process_sized(max_inline_bytes, store, Tail(attachments),
                               Append(processed, norm.attachment))
            ELSE [ok |-> FALSE, message |-> norm.message, attachments |-> <<>>]

SizedLists == UNION {[1..n -> SizedAttachments] : n \in 0..MaxAttachments}
NoAttachCall ==
    [n |-> 0, attachments |-> <<>>, max_inline_bytes |-> 0, store |-> "none",
     result |-> [ok |-> TRUE, message |-> "", attachments |-> <<>>]]

ProcessAttachments(attachments, max_inline_bytes, store) ==
    attach' = [n |-> 1, attachments |-> attachments,
               max_inline_bytes |-> max_inline_bytes, store |-> store,
               result |-> process_sized(max_inline_bytes, store, attachments, <<>>)]

AttachIdle == attach = NoAttachCall
AttachInit == attach = NoAttachCall
AttachNext ==
    \E attachments \in SizedLists, max_inline_bytes \in 0..MaxInlineBytes,
       store \in AttachmentStores :
        ProcessAttachments(attachments, max_inline_bytes, store)

(***************************************************************************)
(* Persisted checkpoints: CheckpointStore (session.rs) and the executor's  *)
(* durability modes. The store is real code; how the executor uses it      *)
(* (with_checkpoint_store, with_checkpoint_durability, resume_from_store,  *)
(* resume_latest_from_store) is taken from the specification, section 4.3. *)
(***************************************************************************)
\* CheckpointDurability
Durabilities == {"None", "Async", "Sync"}
\* A checkpoint id is represented by its rank in the lexicographic order of
\* the id strings.
CheckpointIds == 1..MaxStoreIds
\* uuid::Uuid::new_v4().to_string(): any id not handed out before
new_v4(used) == CheckpointIds \ used

\* CheckpointStore::save: the file <checkpoint_id>.json is written (replacing
\* one of the same name) unless the write fails.
SaveWithoutWriting(files, record, io_ok) == [ok |-> io_ok, files |-> files]
CheckpointStoreSave(files, record, io_ok) ==
    IF io_ok
    THEN [ok |-> TRUE,
          files |-> {f \in files : f.checkpoint_id # record.checkpoint_id}
                    \cup {record}]
    ELSE [ok |-> FALSE, files |-> files]

\* entries.sort()
RECURSIVE SortIds(_)
SortIds(ids) ==
    IF ids = {} THEN <<>>
    ELSE LET least == CHOOSE i \in ids : \A j \in ids : i <= j
         IN  <<least>> \o SortIds(ids \ {least})

\* CheckpointStore::list: the file stems of the run directory, sorted
CheckpointStoreList(files, run_id) ==
    SortIds({f.checkpoint_id : f \in {g \in files : g.run_id = run_id}})

\* CheckpointStore::load
CheckpointStoreHas(files, run_id, checkpoint_id) ==
    \E f \in files : f.run_id = run_id /\ f.checkpoint_id = checkpoint_id
CheckpointStoreLoad(files, run_id, checkpoint_id) ==
    CHOOSE f \in files : f.run_id = run_id /\ f.checkpoint_id = checkpoint_id

StoreFailed(log) == Result("Err", "CheckpointError", InitialState, NoCheckpoint, log)

\* resume_latest_from_store: the last id of the sorted list
LatestId(listed) == listed[Len(listed)]

NoStoreCall ==
    [n |-> 0, op |-> "none", picked |-> 0, listed |-> <<>>, kind |-> "none",
     error |-> "", run_id |-> 0, checkpoint_id |-> 0, events |-> <<>>,
     saved |-> "none"]

StoreRunId == 1

\* invoke_resumable / resume up to the match on the result: the opening event,
\* run_with_checkpoint, and for a result other than Interrupted the closing
\* event. An Interrupted result is handled according to the durability mode:
\* Sync stores and then writes RunPaused, Async and None write RunPaused first.
BeginPersisted(op, picked, listed, first, run_id, res) ==
    IF res.kind # "Interrupted"
    THEN cstore' = [cstore EXCEPT
                      !.call = [n |-> cstore.call.n + 1, op |-> op, picked |-> picked,
                                listed |-> listed, kind |-> res.kind,
                                error |-> res.error, run_id |-> run_id,
                                checkpoint_id |-> 0,
                                events |-> <<first, ClosingEvent(run_id, res)>>,
                                saved |-> "none"]]
    ELSE cstore' = [cstore EXCEPT
                      !.created = Append(@, res.checkpoint.checkpoint_id),
                      !.pending = res.checkpoint,
                      !.pc = IF cstore.durability = "Sync" THEN "store" ELSE "emit",
                      !.call = [n |-> cstore.call.n + 1, op |-> op, picked |-> picked,
                                listed |-> listed, kind |-> "running",
                                error |-> "", run_id |-> run_id,
                                checkpoint_id |-> res.checkpoint.checkpoint_id,
                                events |-> <<first>>, saved |-> "none"]]

\* The store write of a pause: under Sync a failure ends the call with the
\* error and RunPaused is not written; under Async the outcome is ignored.
StoreCheckpoint(io_ok) ==
    /\ cstore.pc = "store"
    /\ LET saved == CheckpointStoreSave(cstore.files, cstore.pending, io_ok)
           failed == StoreFailed(<<>>)
       IN  IF cstore.durability = "Sync"
           THEN IF saved.ok
                THEN cstore' = [cstore EXCEPT !.files = saved.files, !.pc = "emit",
                                              !.call.saved = "ok"]
                ELSE cstore' = [cstore EXCEPT
                                  !.files = saved.files, !.pc = "idle",
                                  !.call.saved = "failed",
                                  !.call.kind = "Err",
                                  !.call.error = failed.error,
                                  !.call.events =
                                      Append(@, ClosingEvent(cstore.call.run_id, failed))]
           ELSE cstore' = [cstore EXCEPT
                             !.files = saved.files, !.pc = "idle",
                             !.call.saved = IF saved.ok THEN "ok" ELSE "failed",
                             !.call.kind = "Interrupted"]

\* emit_run_event(Event::RunPaused { run_id, checkpoint_id })
EmitRunPaused ==
    /\ cstore.pc = "emit"
    /\ LET paused == RunEvent("RunPaused", cstore.call.run_id,
                              cstore.pending.checkpoint_id, "")
       IN  cstore' = [cstore EXCEPT
                        !.call.events = Append(@, paused),
                        !.pc = IF cstore.durability = "Async" THEN "store" ELSE "idle",
                        !.call.kind = IF cstore.durability = "Async"
                                      THEN @ ELSE "Interrupted"]

\* invoke_resumable with a checkpoint store
InvokeResumablePersisted(id) ==
    /\ cstore.pc = "idle"
    /\ cstore.call.n < MaxStoreCalls
    /\ cstore.created = <<>>
    /\ BeginPersisted("invoke", 0, <<>>, RunEvent("RunStarted", StoreRunId, 0, ""),
                      StoreRunId,
                      Stamp(RunWithCheckpoint(StoreRunId, InitialState, START, 0,
                                              [k \in Keys |-> Absent]), id))

\* The resume a persisted checkpoint is continued with (CompiledGraph::resume)
ResumePersisted(op, checkpoint, listed, command, id) ==
    BeginPersisted(op, checkpoint.checkpoint_id, listed,
                   RunEvent("RunResumed", checkpoint.run_id,
                            checkpoint.checkpoint_id, ""),
                   checkpoint.run_id,
                   Stamp(RunWithCheckpoint(checkpoint.run_id, checkpoint.state,
                                           checkpoint.next_node, checkpoint.iterations,
                                           MergeResumeValues(checkpoint, command)), id))

LoadFailed(op, picked, listed) ==
    cstore' = [cstore EXCEPT
                 !.call = [NoStoreCall EXCEPT !.n = cstore.call.n + 1, !.op = op,
                                              !.picked = picked, !.listed = listed,
                                              !.kind = "Err",
                                              !.error = "CheckpointError"]]

\* resume_from_store(run_id, checkpoint_id, command)
ResumeFromStore(checkpoint_id, command, id) ==
    /\ cstore.pc = "idle"
    /\ cstore.call.n < MaxStoreCalls
    /\ cstore.created # <<>>
    /\ IF CheckpointStoreHas(cstore.files, StoreRunId, checkpoint_id)
       THEN ResumePersisted("resume_from_store",
                            CheckpointStoreLoad(cstore.files, StoreRunId, checkpoint_id),
                            <<>>, command, id)
       ELSE LoadFailed("resume_from_store", checkpoint_id, <<>>)

\* resume_latest_from_store(run_id, command)
ResumeLatestFromStore(command, id) ==
    /\ cstore.pc = "idle"
    /\ cstore.call.n < MaxStoreCalls
    /\ cstore.created # <<>>
    /\ LET listed == CheckpointStoreList(cstore.files, StoreRunId) IN
       IF listed # <<>>
       THEN ResumePersisted("resume_latest_from_store",
                            CheckpointStoreLoad(cstore.files, StoreRunId,
                                                LatestId(listed)),
                            listed, command, id)
       ELSE LoadFailed("resume_latest_from_store", 0, listed)

StoreIdle ==
    cstore = [durability |-> "None", files |-> {}, created |-> <<>>,
              pending |-> NoCheckpoint, pc |-> "idle", call |-> NoStoreCall]

StoreInit ==
    \E durability \in Durabilities :
       cstore = [durability |-> durability, files |-> {}, created |-> <<>>,
                 pending |-> NoCheckpoint, pc |-> "idle", call |-> NoStoreCall]

Created == {cstore.created[i] : i \in 1..Len(cstore.created)}

StoreNext ==
    \/ \E id \in new_v4({}) : InvokeResumablePersisted(id)
    \/ \E io_ok \in BOOLEAN : StoreCheckpoint(io_ok)
    \/ EmitRunPaused
    \/ \E checkpoint_id \in CheckpointIds, command \in Commands, id \in new_v4(Created) :
          ResumeFromStore(checkpoint_id, command, id)
    \/ \E command \in Commands, id \in new_v4(Created) :
          ResumeLatestFromStore(command, id)

(***************************************************************************)
(* The permission ask / reply / resume protocol: one node whose handler    *)
(* runs its tools in order through ToolExecutor::run, on the graph         *)
(* START -> loop -> END, with a PermissionSession the caller replies to.   *)
(***************************************************************************)
ToolLetters == <<"a", "b", "c", "d">>
\* format!("tool:{}", call.tool)
ToolPermissionOf(i) == <<"t", ToolLetters[i]>>
\* PermissionPolicy::new(vec![PermissionRule::new(PermissionDecision::Ask, ..)])
AskRules(asking) ==
    <<[action |-> "Ask", patterns |-> {ToolPermissionOf(i) : i \in asking}]>>
\* A budget the runs below do not exhaust.
ask_max_iterations == 100

\* ToolExecutor::run up to the match on the decision, for a gate whose
\* overrides hold once entries only.
GateDecideBaseOnly(permission, onceSet, rules, chosen) ==
    [decision |-> PolicyDecide(rules, permission), once |-> onceSet]
GateDecide(permission, onceSet, rules, chosen) ==
    LET answer == OverridesDecide(permission, onceSet, {}, {}, chosen) IN
    [decision |-> IF answer.tier = "base" THEN PolicyDecide(rules, permission)
                  ELSE answer.decision,
     once |-> IF answer.tier = "once" THEN OnceRemove(onceSet, answer.consumed)
              ELSE onceSet]

NoAsk ==
    [n |-> 0, asking |-> {}, once |-> {}, run |-> 0, resumes |-> 0, total |-> 0,
     pos |-> 0, iterations |-> 0, result |-> "none", error |-> "",
     asked |-> NoPattern, pending |-> 0, replied |-> FALSE, ran |-> <<>>]

\* invoke_resumable: the loop enters the node with iterations 1
AskInvoke ==
    /\ ask.result \in {"none", "Complete"}
    /\ ask.run < MaxAskRuns
    /\ ask' = [ask EXCEPT !.run = @ + 1, !.resumes = 0, !.pos = 1,
                          !.iterations = 1, !.result = "running", !.error = "",
                          !.asked = NoPattern, !.pending = 0, !.replied = FALSE,
                          !.ran = <<>>]

\* The handler's next ctx.run_tool(..).await?: Allow runs the tool, Ask ends
\* the node with one interrupt, which run_with_checkpoint turns into a
\* checkpoint naming this node; after the last tool the node returns and the
\* edge to END ends the loop.
AskToolStep(chosen) ==
    /\ ask.result = "running"
    /\ LET permission == ToolPermissionOf(ask.pos)
           d == GateDecide(permission, ask.once, AskRules(ask.asking), chosen)
       IN  IF d.decision = "Allow"
           THEN ask' = [ask EXCEPT
                          !.once = d.once,
                          !.ran = Append(@, ask.pos),
                          !.pos = @ + 1,
                          !.result = IF ask.pos < ask.n THEN "running"
                                     ELSE IF ask.iterations >= ask_max_iterations
                                     THEN "Err" ELSE "Complete",
                          !.error = IF ask.pos = ask.n
                                       /\ ask.iterations >= ask_max_iterations
                                    THEN "MaxIterationsExceeded" ELSE ""]
           ELSE IF d.decision = "Ask"
           THEN ask' = [ask EXCEPT !.once = d.once, !.result = "Interrupted",
                                   !.asked = permission, !.pending = 1,
                                   !.replied = FALSE]
           ELSE ask' = [ask EXCEPT !.once = d.once, !.result = "Err",
                                   !.error = "PermissionDenied"]

\* gate.apply_reply(permission, PermissionReply::Once), for the permission
\* the pending interrupt asked
AskReplyOnce ==
    /\ ask.result = "Interrupted"
    /\ ~ask.replied
    /\ ask' = [ask EXCEPT !.once = @ \cup {ask.asked}, !.replied = TRUE]

\* resume(checkpoint, command): the node named by the checkpoint is executed
\* again from its first statement, with the checkpoint's iteration count
AskResume ==
    /\ ask.result = "Interrupted"
    /\ ask.replied
    /\ IF ask.iterations < ask_max_iterations
       THEN ask' = [ask EXCEPT !.resumes = @ + 1, !.total = @ + 1, !.pos = 1,
                               !.iterations = @ + 1, !.result = "running",
                               !.ran = <<>>]
       ELSE ask' = [ask EXCEPT !.resumes = @ + 1, !.total = @ + 1,
                               !.result = "Err",
                               !.error = "MaxIterationsExceeded"]

AskIdle == ask = NoAsk

AskInit ==
    \E n \in 1..MaxAskTools :
       \E asking \in SUBSET (1..n) :
          ask = [NoAsk EXCEPT !.n = n, !.asking = asking]

AskNext ==
    \/ AskInvoke
    \/ /\ ask.result = "running"
       /\ \E chosen \in best_matching_pattern(ask.once, ToolPermissionOf(ask.pos)) :
             AskToolStep(chosen)
    \/ AskReplyOnce
    \/ AskResume

(***************************************************************************)
(* PermissionSession::decide called by two handlers of one run at once.    *)
(* Each call locks the overrides mutex, runs PermissionOverrides::decide   *)
(* (the scan of the three sets, then the removal of the consumed once      *)
(* entry), falls back to the base policy, and unlocks on return.           *)
(***************************************************************************)
GateThreads == {1, 2}
\* std::sync::Mutex::lock: granted when no thread holds the mutex
MutexNotExclusive(holder) == TRUE
MutexFree(holder) == holder = {}

\* let mut overrides = self.overrides.lock().unwrap()
GateLock(t) ==
    /\ gate.pc[t] = "call"
    /\ MutexFree(gate.holder)
    /\ gate' = [gate EXCEPT !.holder = @ \cup {t}, !.pc[t] = "locked"]

\* PermissionOverrides::decide up to the choice of the once pattern
GateScan(t, chosen) ==
    /\ gate.pc[t] = "locked"
    /\ gate' = [gate EXCEPT
                  !.answer[t] = OverridesDecide(gate.permission, gate.once,
                                                gate.always, gate.reject, chosen),
                  !.pc[t] = "scanned"]

\* self.once.remove(&pattern), the fall back to self.base.decide, and the
\* return, which drops the guard
GateReturn(t) ==
    /\ gate.pc[t] = "scanned"
    /\ gate' = [gate EXCEPT
                  !.once = IF gate.answer[t].tier = "once"
                           THEN OnceRemove(@, gate.answer[t].consumed) ELSE @,
                  !.decision[t] = IF gate.answer[t].tier = "base"
                                  THEN PolicyDecide(BaseRules, gate.permission)
                                  ELSE gate.answer[t].decision,
                  !.holder = @ \ {t},
                  !.pc[t] = "done"]

GateState(permission, onceSet, alwaysSet, rejectSet, at) ==
    [permission |-> permission, once |-> onceSet, once_before |-> onceSet,
     always |-> alwaysSet, reject |-> rejectSet, holder |-> {},
     pc |-> [t \in GateThreads |-> at],
     answer |-> [t \in GateThreads |-> Answer("None", "none", NoPattern)],
     decision |-> [t \in GateThreads |-> "None"]]

GateIdle == gate = GateState(NoPattern, {}, {}, {}, "idle")

\* The overrides a session can hold after any replies, and two handlers
\* about to call decide for the same permission.
GateInit ==
    \E permission \in Permissions, onceSet \in SUBSET Patterns,
       alwaysSet \in SUBSET {<<"t", "a">>}, rejectSet \in SUBSET {<<"t", "a", Star>>} :
       gate = GateState(permission, onceSet, alwaysSet, rejectSet, "call")

GateNext ==
    \/ \E t \in GateThreads : GateLock(t)
    \/ \E t \in GateThreads :
          \E chosen \in best_matching_pattern(gate.once, gate.permission) :
             GateScan(t, chosen)
    \/ \E t \in GateThreads : GateReturn(t)

(***************************************************************************)
(* The iteration budget across pauses: invoke_resumable and resume on the  *)
(* chain graph START -> 1 -> .. -> path_len -> END (or back to 1), whose   *)
(* nodes in `validating` interrupt until they find "approved" under        *)
(* resume:<node>.                                                          *)
(***************************************************************************)
BudgetNodes == 1..MaxBudgetPath
ResumeAnswers == {"approved", "invalid"}
NoResumeValues == [n \in BudgetNodes |-> "absent"]

\* validate_resume_node: Ok when its resume value is "approved", else interrupt
ValidateResume(node, resume_values) == resume_values[node] = "approved"

\* start_iterations as resume hands it to run_with_checkpoint
StartIterationsAnew(checkpoint) == 0
StartIterations(checkpoint) == checkpoint.iterations

BudgetResult(kind, error, next_node, iterations, resume_values, executed) ==
    [kind |-> kind, error |-> error, next_node |-> next_node,
     iterations |-> iterations, resume_values |-> resume_values,
     executed |-> executed]

\* The loop of run_with_checkpoint with no masked node; `executed` counts the
\* calls of node.execute made by this call
RECURSIVE BudgetLoop(_, _, _, _, _)
BudgetLoop(graph, current_node, iterations, resume_values, executed) ==
    IF current_node # 0 /\ iterations < graph.max_iterations
    THEN IF current_node \in graph.validating
            /\ ~ValidateResume(current_node, resume_values)
         THEN BudgetResult("Interrupted", "", current_node, iterations + 1,
                           resume_values, executed + 1)
         ELSE BudgetLoop(graph,
                         ChainNext(current_node, graph.path_len, graph.cyclic),
                         iterations + 1, resume_values, executed + 1)
    ELSE IF iterations >= graph.max_iterations
         THEN BudgetResult("Err", "MaxIterationsExceeded", 0, iterations,
                           resume_values, executed)
         ELSE BudgetResult("Complete", "", 0, iterations, resume_values, executed)

NoBudgetCall == [op |-> "none", from |-> 0, kind |-> "none", error |-> "",
                 executed |-> 0, chain |-> 0]

\* What a call leaves behind: its checkpoint when it paused, the executions
\* it made added to the total, and to those of the chain it continues
BudgetReturned(op, from, spent, res) ==
    [budget EXCEPT
       !.checkpoints =
           IF res.kind = "Interrupted"
           THEN Append(@, [next_node |-> res.next_node,
                           iterations |-> res.iterations,
                           resume_values |-> res.resume_values,
                           spent |-> spent + res.executed])
           ELSE @,
       !.total = @ + res.executed,
       !.last = [op |-> op, from |-> from, kind |-> res.kind,
                 error |-> res.error, executed |-> res.executed,
                 chain |-> spent + res.executed]]

\* CompiledGraph::invoke_resumable
BudgetInvoke ==
    /\ budget.last.op = "none"
    /\ budget' = BudgetReturned("invoke", 0, 0,
                                BudgetLoop(budget.graph,
                                           ChainNext(0, budget.graph.path_len, FALSE),
                                           0, NoResumeValues, 0))

\* CompiledGraph::resume of the c-th checkpoint returned so far: the command's
\* value is stored under the node of the pending interrupt
BudgetResume(c, value) ==
    /\ budget.resumes < MaxBudgetResumes
    /\ LET checkpoint == budget.checkpoints[c]
           resume_values == [checkpoint.resume_values EXCEPT
                               ![checkpoint.next_node] = value]
           res == BudgetLoop(budget.graph, checkpoint.next_node,
                             StartIterations(checkpoint), resume_values, 0)
       IN  budget' = [BudgetReturned("resume", c, checkpoint.spent, res)
                        EXCEPT !.resumes = @ + 1]

StartBudget(max, path_len, cyclic, validating) ==
    [graph |-> [max_iterations |-> max, path_len |-> path_len,
                cyclic |-> cyclic, validating |-> validating],
     checkpoints |-> <<>>, resumes |-> 0, total |-> 0, last |-> NoBudgetCall]

BudgetIdle == budget = StartBudget(1, 1, FALSE, {})
BudgetInit ==
    \E max \in 1..MaxBudgetIterations, path_len \in 1..MaxBudgetPath,
       cyclic \in BOOLEAN :
        \E validating \in SUBSET (1..path_len) :
            budget = StartBudget(max, path_len, cyclic, validating)
BudgetNext ==
    \/ BudgetInvoke
    \/ \E c \in 1..Len(budget.checkpoints), value \in ResumeAnswers :
          BudgetResume(c, value)

(***************************************************************************)
(* Specifications.                                                         *)
(***************************************************************************)
PermIdle == PermInit

\* The checkpoint / resume protocol of one compiled graph.
Init == ExecInit /\ SinkInit({}) /\ PermIdle /\ ToolInit /\ RunInit /\ IterIdle /\ BudgetIdle /\ GateIdle /\ AskIdle /\ StoreIdle /\ AttachIdle /\ SessionIdle /\ StreamIdle /\ PruneIdle /\ EmitIdle /\ WalkIdle /\ RouteIdle
Next == ExecNext /\ UNCHANGED sinkVars /\ UNCHANGED permVars /\ UNCHANGED toolVars /\ UNCHANGED runVars /\ UNCHANGED iterVars /\ UNCHANGED budgetVars /\ UNCHANGED gateVars /\ UNCHANGED askVars /\ UNCHANGED storeVars /\ UNCHANGED attachVars /\ UNCHANGED sessionVars /\ UNCHANGED streamVars /\ UNCHANGED pruneVars /\ UNCHANGED emitVars /\ UNCHANGED walkVars /\ UNCHANGED routeVars
Spec == Init /\ [][Next]_vars

\* One run emitting through its RecordingSink: a single thread.
SinkSeqInit == ExecInit /\ SinkInit({1}) /\ PermIdle /\ ToolInit /\ RunInit /\ IterIdle /\ BudgetIdle /\ GateIdle /\ AskIdle /\ StoreIdle /\ AttachIdle /\ SessionIdle /\ StreamIdle /\ PruneIdle /\ EmitIdle /\ WalkIdle /\ RouteIdle
SinkSeqNext == SinkNext /\ UNCHANGED execVars /\ UNCHANGED permVars /\ UNCHANGED toolVars /\ UNCHANGED runVars /\ UNCHANGED iterVars /\ UNCHANGED budgetVars /\ UNCHANGED gateVars /\ UNCHANGED askVars /\ UNCHANGED storeVars /\ UNCHANGED attachVars /\ UNCHANGED sessionVars /\ UNCHANGED streamVars /\ UNCHANGED pruneVars /\ UNCHANGED emitVars /\ UNCHANGED walkVars /\ UNCHANGED routeVars
SpecSink == SinkSeqInit /\ [][SinkSeqNext]_vars

\* A handler that spawns: two threads emitting through the same RecordingSink.
SinkConcInit == ExecInit /\ SinkInit({1, 2}) /\ PermIdle /\ ToolInit /\ RunInit /\ IterIdle /\ BudgetIdle /\ GateIdle /\ AskIdle /\ StoreIdle /\ AttachIdle /\ SessionIdle /\ StreamIdle /\ PruneIdle /\ EmitIdle /\ WalkIdle /\ RouteIdle
SinkConcNext == SinkNext /\ UNCHANGED execVars /\ UNCHANGED permVars /\ UNCHANGED toolVars /\ UNCHANGED runVars /\ UNCHANGED iterVars /\ UNCHANGED budgetVars /\ UNCHANGED gateVars /\ UNCHANGED askVars /\ UNCHANGED storeVars /\ UNCHANGED attachVars /\ UNCHANGED sessionVars /\ UNCHANGED streamVars /\ UNCHANGED pruneVars /\ UNCHANGED emitVars /\ UNCHANGED walkVars /\ UNCHANGED routeVars
SpecSinkConc == SinkConcInit /\ [][SinkConcNext]_vars

\* One PermissionSession receiving replies and deciding permissions.
PermSpecInit == ExecInit /\ SinkInit({}) /\ PermInit /\ ToolInit /\ RunInit /\ IterIdle /\ BudgetIdle /\ GateIdle /\ AskIdle /\ StoreIdle /\ AttachIdle /\ SessionIdle /\ StreamIdle /\ PruneIdle /\ EmitIdle /\ WalkIdle /\ RouteIdle
PermSpecNext == PermNext /\ UNCHANGED execVars /\ UNCHANGED sinkVars /\ UNCHANGED toolVars /\ UNCHANGED runVars /\ UNCHANGED iterVars /\ UNCHANGED budgetVars /\ UNCHANGED gateVars /\ UNCHANGED askVars /\ UNCHANGED storeVars /\ UNCHANGED attachVars /\ UNCHANGED sessionVars /\ UNCHANGED streamVars /\ UNCHANGED pruneVars /\ UNCHANGED emitVars /\ UNCHANGED walkVars /\ UNCHANGED routeVars
SpecPerm == PermSpecInit /\ [][PermSpecNext]_vars

\* Tool invocations through one ToolExecutor / LoopContext sharing a
\* PermissionSession, with another thread cancelling the token.
ToolSpecInit == ExecInit /\ SinkInit({}) /\ PermInit /\ ToolInit /\ RunInit /\ IterIdle /\ BudgetIdle /\ GateIdle /\ AskIdle /\ StoreIdle /\ AttachIdle /\ SessionIdle /\ StreamIdle /\ PruneIdle /\ EmitIdle /\ WalkIdle /\ RouteIdle
ToolSpecNext == ToolNext /\ UNCHANGED execVars /\ UNCHANGED sinkVars /\ UNCHANGED runVars /\ UNCHANGED iterVars /\ UNCHANGED budgetVars /\ UNCHANGED gateVars /\ UNCHANGED askVars /\ UNCHANGED storeVars /\ UNCHANGED attachVars /\ UNCHANGED sessionVars /\ UNCHANGED streamVars /\ UNCHANGED pruneVars /\ UNCHANGED emitVars /\ UNCHANGED walkVars /\ UNCHANGED routeVars
SpecTool == ToolSpecInit /\ [][ToolSpecNext]_vars

\* A compiled graph with a run-event sink configured.
RunSpecInit == ExecInit /\ SinkInit({}) /\ PermInit /\ ToolInit /\ RunInit /\ IterIdle /\ BudgetIdle /\ GateIdle /\ AskIdle /\ StoreIdle /\ AttachIdle /\ SessionIdle /\ StreamIdle /\ PruneIdle /\ EmitIdle /\ WalkIdle /\ RouteIdle
RunSpecNext ==
    RunNext /\ UNCHANGED sinkVars /\ UNCHANGED permVars /\ UNCHANGED toolVars
            /\ UNCHANGED iterVars /\ UNCHANGED budgetVars /\ UNCHANGED gateVars /\ UNCHANGED askVars /\ UNCHANGED storeVars /\ UNCHANGED attachVars /\ UNCHANGED sessionVars /\ UNCHANGED streamVars /\ UNCHANGED pruneVars /\ UNCHANGED emitVars /\ UNCHANGED walkVars /\ UNCHANGED routeVars
SpecRun == RunSpecInit /\ [][RunSpecNext]_vars

\* One invoke of a chain graph under an iteration bound.
IterSpecInit == ExecInit /\ SinkInit({}) /\ PermInit /\ ToolInit /\ RunInit /\ IterInit /\ BudgetIdle /\ GateIdle /\ AskIdle /\ StoreIdle /\ AttachIdle /\ SessionIdle /\ StreamIdle /\ PruneIdle /\ EmitIdle /\ WalkIdle /\ RouteIdle
IterSpecNext ==
    IterNext /\ UNCHANGED execVars /\ UNCHANGED sinkVars /\ UNCHANGED permVars
             /\ UNCHANGED toolVars /\ UNCHANGED runVars /\ UNCHANGED budgetVars /\ UNCHANGED gateVars /\ UNCHANGED askVars /\ UNCHANGED storeVars /\ UNCHANGED attachVars /\ UNCHANGED sessionVars /\ UNCHANGED streamVars /\ UNCHANGED pruneVars /\ UNCHANGED emitVars /\ UNCHANGED walkVars /\ UNCHANGED routeVars
SpecIter == IterSpecInit /\ [][IterSpecNext]_vars

\* Calls of get_next_node on every small edge list.
RouteSpecInit == ExecInit /\ SinkInit({}) /\ PermInit /\ ToolInit /\ RunInit /\ IterIdle /\ BudgetIdle /\ GateIdle /\ AskIdle /\ StoreIdle /\ AttachIdle /\ SessionIdle /\ StreamIdle /\ PruneIdle /\ EmitIdle /\ WalkIdle /\ RouteInit
RouteSpecNext ==
    RouteNext /\ UNCHANGED execVars /\ UNCHANGED sinkVars /\ UNCHANGED permVars
              /\ UNCHANGED toolVars /\ UNCHANGED runVars /\ UNCHANGED iterVars /\ UNCHANGED budgetVars /\ UNCHANGED gateVars /\ UNCHANGED askVars /\ UNCHANGED storeVars /\ UNCHANGED attachVars /\ UNCHANGED sessionVars /\ UNCHANGED streamVars /\ UNCHANGED pruneVars /\ UNCHANGED emitVars /\ UNCHANGED walkVars
SpecRoute == RouteSpecInit /\ [][RouteSpecNext]_vars

\* Runs of a branching graph with masked nodes, in every execution mode.
WalkSpecInit == ExecInit /\ SinkInit({}) /\ PermInit /\ ToolInit /\ RunInit /\ IterIdle /\ BudgetIdle /\ GateIdle /\ AskIdle /\ StoreIdle /\ AttachIdle /\ SessionIdle /\ StreamIdle /\ PruneIdle /\ EmitIdle /\ RouteIdle /\ WalkInit
WalkSpecNext ==
    WalkNext /\ UNCHANGED execVars /\ UNCHANGED sinkVars /\ UNCHANGED permVars
             /\ UNCHANGED toolVars /\ UNCHANGED runVars /\ UNCHANGED iterVars /\ UNCHANGED budgetVars /\ UNCHANGED gateVars /\ UNCHANGED askVars /\ UNCHANGED storeVars /\ UNCHANGED attachVars /\ UNCHANGED sessionVars /\ UNCHANGED streamVars /\ UNCHANGED pruneVars /\ UNCHANGED emitVars /\ UNCHANGED routeVars
SpecWalk == WalkSpecInit /\ [][WalkSpecNext]_vars

\* One thread emitting through a RecordingSink whose sinks may refuse writes.
EmitSpecInit == ExecInit /\ SinkInit({}) /\ PermInit /\ ToolInit /\ RunInit /\ IterIdle /\ BudgetIdle /\ GateIdle /\ AskIdle /\ StoreIdle /\ AttachIdle /\ SessionIdle /\ StreamIdle /\ PruneIdle /\ RouteIdle /\ WalkIdle /\ EmitInit
EmitSpecNext ==
    EmitNext /\ UNCHANGED execVars /\ UNCHANGED sinkVars /\ UNCHANGED permVars
             /\ UNCHANGED toolVars /\ UNCHANGED runVars /\ UNCHANGED iterVars /\ UNCHANGED budgetVars /\ UNCHANGED gateVars /\ UNCHANGED askVars /\ UNCHANGED storeVars /\ UNCHANGED attachVars /\ UNCHANGED sessionVars /\ UNCHANGED streamVars /\ UNCHANGED pruneVars /\ UNCHANGED routeVars /\ UNCHANGED walkVars
SpecEmit == EmitSpecInit /\ [][EmitSpecNext]_vars

\* prune_tool_events applied once to every short event list.
PruneSpecInit == ExecInit /\ SinkInit({}) /\ PermInit /\ ToolInit /\ RunInit /\ IterIdle /\ BudgetIdle /\ GateIdle /\ AskIdle /\ StoreIdle /\ AttachIdle /\ SessionIdle /\ StreamIdle /\ RouteIdle /\ WalkIdle /\ EmitIdle /\ PruneInit
PruneSpecNext ==
    PruneNext /\ UNCHANGED execVars /\ UNCHANGED sinkVars /\ UNCHANGED permVars
              /\ UNCHANGED toolVars /\ UNCHANGED runVars /\ UNCHANGED iterVars /\ UNCHANGED budgetVars /\ UNCHANGED gateVars /\ UNCHANGED askVars /\ UNCHANGED storeVars /\ UNCHANGED attachVars /\ UNCHANGED sessionVars /\ UNCHANGED streamVars /\ UNCHANGED routeVars /\ UNCHANGED walkVars /\ UNCHANGED emitVars
SpecPrune == PruneSpecInit /\ [][PruneSpecNext]_vars

\* stream_events runs under every prune / compaction configuration.
StreamSpecInit == ExecInit /\ SinkInit({}) /\ PermInit /\ ToolInit /\ RunInit /\ IterIdle /\ BudgetIdle /\ GateIdle /\ AskIdle /\ StoreIdle /\ AttachIdle /\ SessionIdle /\ RouteIdle /\ WalkIdle /\ EmitIdle /\ PruneIdle /\ StreamInit
StreamSpecNext ==
    StreamNext /\ UNCHANGED execVars /\ UNCHANGED sinkVars /\ UNCHANGED permVars
               /\ UNCHANGED toolVars /\ UNCHANGED runVars /\ UNCHANGED iterVars /\ UNCHANGED budgetVars /\ UNCHANGED gateVars /\ UNCHANGED askVars /\ UNCHANGED storeVars /\ UNCHANGED attachVars /\ UNCHANGED sessionVars /\ UNCHANGED routeVars /\ UNCHANGED walkVars /\ UNCHANGED emitVars /\ UNCHANGED pruneVars
SpecStream == StreamSpecInit /\ [][StreamSpecNext]_vars

\* One SessionState driven through its public methods.
SessionSpecInit == ExecInit /\ SinkInit({}) /\ PermInit /\ ToolInit /\ RunInit /\ IterIdle /\ BudgetIdle /\ GateIdle /\ AskIdle /\ StoreIdle /\ AttachIdle /\ RouteIdle /\ WalkIdle /\ EmitIdle /\ PruneIdle /\ StreamIdle /\ SessionInit
SessionSpecNext ==
    SessionNext /\ UNCHANGED execVars /\ UNCHANGED sinkVars /\ UNCHANGED permVars
                /\ UNCHANGED toolVars /\ UNCHANGED runVars /\ UNCHANGED iterVars /\ UNCHANGED budgetVars /\ UNCHANGED gateVars /\ UNCHANGED askVars /\ UNCHANGED storeVars /\ UNCHANGED attachVars /\ UNCHANGED routeVars /\ UNCHANGED walkVars /\ UNCHANGED emitVars /\ UNCHANGED pruneVars /\ UNCHANGED streamVars
SpecSession == SessionSpecInit /\ [][SessionSpecNext]_vars

\* The attachments of a successful handler normalized under every policy.
AttachSpecInit == ExecInit /\ SinkInit({}) /\ PermInit /\ ToolInit /\ RunInit /\ IterIdle /\ BudgetIdle /\ GateIdle /\ AskIdle /\ StoreIdle /\ RouteIdle /\ WalkIdle /\ EmitIdle /\ PruneIdle /\ StreamIdle /\ SessionIdle /\ AttachInit
AttachSpecNext ==
    AttachNext /\ UNCHANGED execVars /\ UNCHANGED sinkVars /\ UNCHANGED permVars
               /\ UNCHANGED toolVars /\ UNCHANGED runVars /\ UNCHANGED iterVars /\ UNCHANGED budgetVars /\ UNCHANGED gateVars /\ UNCHANGED askVars /\ UNCHANGED storeVars /\ UNCHANGED routeVars /\ UNCHANGED walkVars /\ UNCHANGED emitVars /\ UNCHANGED pruneVars /\ UNCHANGED streamVars /\ UNCHANGED sessionVars
SpecAttach == AttachSpecInit /\ [][AttachSpecNext]_vars

StoreSpecInit == ExecInit /\ SinkInit({}) /\ PermInit /\ ToolInit /\ RunInit /\ IterIdle /\ BudgetIdle /\ GateIdle /\ AskIdle /\ RouteIdle /\ WalkIdle /\ EmitIdle /\ PruneIdle /\ StreamIdle /\ SessionIdle /\ AttachIdle /\ StoreInit
StoreSpecNext ==
    StoreNext /\ UNCHANGED execVars /\ UNCHANGED sinkVars /\ UNCHANGED permVars
              /\ UNCHANGED toolVars /\ UNCHANGED runVars /\ UNCHANGED iterVars /\ UNCHANGED budgetVars /\ UNCHANGED gateVars /\ UNCHANGED askVars /\ UNCHANGED routeVars /\ UNCHANGED walkVars /\ UNCHANGED emitVars /\ UNCHANGED pruneVars /\ UNCHANGED streamVars /\ UNCHANGED sessionVars /\ UNCHANGED attachVars
SpecStore == StoreSpecInit /\ [][StoreSpecNext]_vars

AskSpecInit == ExecInit /\ SinkInit({}) /\ PermInit /\ ToolInit /\ RunInit /\ IterIdle /\ BudgetIdle /\ GateIdle /\ RouteIdle /\ WalkIdle /\ EmitIdle /\ PruneIdle /\ StreamIdle /\ SessionIdle /\ AttachIdle /\ StoreIdle /\ AskInit
AskSpecNext ==
    AskNext /\ UNCHANGED execVars /\ UNCHANGED sinkVars /\ UNCHANGED permVars
            /\ UNCHANGED toolVars /\ UNCHANGED runVars /\ UNCHANGED iterVars /\ UNCHANGED budgetVars /\ UNCHANGED gateVars /\ UNCHANGED routeVars /\ UNCHANGED walkVars /\ UNCHANGED emitVars /\ UNCHANGED pruneVars /\ UNCHANGED streamVars /\ UNCHANGED sessionVars /\ UNCHANGED attachVars /\ UNCHANGED storeVars
SpecAsk == AskSpecInit /\ [][AskSpecNext]_vars

GateSpecInit == ExecInit /\ SinkInit({}) /\ PermInit /\ ToolInit /\ RunInit /\ IterIdle /\ BudgetIdle /\ RouteIdle /\ WalkIdle /\ EmitIdle /\ PruneIdle /\ StreamIdle /\ SessionIdle /\ AttachIdle /\ StoreIdle /\ AskIdle /\ GateInit
GateSpecNext ==
    GateNext /\ UNCHANGED execVars /\ UNCHANGED sinkVars /\ UNCHANGED permVars
             /\ UNCHANGED toolVars /\ UNCHANGED runVars /\ UNCHANGED iterVars /\ UNCHANGED budgetVars /\ UNCHANGED routeVars /\ UNCHANGED walkVars /\ UNCHANGED emitVars /\ UNCHANGED pruneVars /\ UNCHANGED streamVars /\ UNCHANGED sessionVars /\ UNCHANGED attachVars /\ UNCHANGED storeVars /\ UNCHANGED askVars
SpecGate == GateSpecInit /\ [][GateSpecNext]_vars

BudgetSpecInit == ExecInit /\ SinkInit({}) /\ PermInit /\ ToolInit /\ RunInit /\ IterIdle /\ RouteIdle /\ WalkIdle /\ EmitIdle /\ PruneIdle /\ StreamIdle /\ SessionIdle /\ AttachIdle /\ StoreIdle /\ AskIdle /\ GateIdle /\ BudgetInit
BudgetSpecNext ==
    BudgetNext /\ UNCHANGED execVars /\ UNCHANGED sinkVars /\ UNCHANGED permVars
            /\ UNCHANGED toolVars /\ UNCHANGED runVars /\ UNCHANGED iterVars /\ UNCHANGED routeVars /\ UNCHANGED walkVars /\ UNCHANGED emitVars /\ UNCHANGED pruneVars /\ UNCHANGED streamVars /\ UNCHANGED sessionVars /\ UNCHANGED attachVars /\ UNCHANGED storeVars /\ UNCHANGED askVars /\ UNCHANGED gateVars
SpecBudget == BudgetSpecInit /\ [][BudgetSpecNext]_vars

(***************************************************************************)
(* Claims about the checkpoint / resume protocol.                          *)
(***************************************************************************)
IsResume == last.op = "resume"
Resumed == checkpoints[last.from]
Rejected ==
    /\ last.result.kind = "Err"
    /\ last.result.error = "CheckpointError"
    /\ last.result.log = <<>>

\* C1: a resume of a checkpoint with exactly one pending interrupt, given a
\* command whose interrupt_id is set and differs from the pending id, fails with
\* CheckpointError and executes no node.
C1_MismatchedIdRejected ==
    (/\ IsResume
     /\ Len(Resumed.pending_interrupts) = 1
     /\ last.command.interrupt_id # NoId
     /\ last.command.interrupt_id # Resumed.pending_interrupts[1].id)
    => Rejected

CoversAllPending(command, pending) ==
    /\ command.value.kind = "map"
    /\ \A i \in 1..Len(pending) :
          \E j \in 1..Len(command.value.keys) : command.value.keys[j] = pending[i].id

\* C2: a resume of a checkpoint with more than one pending interrupt fails with
\* CheckpointError, executing no node, unless the command is a map that holds a
\* value for every pending interrupt id.
C2_MultiPendingNeedsFullMap ==
    (/\ IsResume
     /\ Len(Resumed.pending_interrupts) > 1
     /\ ~CoversAllPending(last.command, Resumed.pending_interrupts))
    => Rejected

\* C3: when a single-pending checkpoint is resumed with a value, the state the
\* re-executed handler is given has both resume:<node name> and
\* resume:<pending interrupt id> set to that value.
C3_ResumeValueUnderBothKeys ==
    (/\ IsResume
     /\ Len(Resumed.pending_interrupts) = 1
     /\ last.result.log # <<>>)
    => /\ last.result.log[1].state.resume[Resumed.next_node] = last.command.value
       /\ last.result.log[1].state.resume[Resumed.pending_interrupts[1].id]
             = last.command.value

\* C4: an interrupt stops the run without advancing: the checkpoint's next_node
\* is the node that interrupted and that node has not been counted as completed;
\* a resume starts at that node, invokes no node that had completed before the
\* interrupt, and a run that completes has completed every node of the path
\* exactly once.
C4_InterruptDoesNotAdvance ==
    /\ last.result.kind = "Interrupted" =>
          LET log == last.result.log
              ck == last.result.checkpoint
          IN  /\ ck.next_node = log[Len(log)].node
              /\ ck.state.done[ck.next_node] = 0
    /\ IsResume =>
          LET log == last.result.log IN
          /\ log # <<>> => log[1].node = Resumed.next_node
          /\ \A i \in 1..Len(log) : Resumed.state.done[log[i].node] = 0
          /\ \A i, j \in 1..Len(log) : log[i].node = log[j].node => i = j
    /\ \A n \in Nodes : last.result.state.done[n] <= 1
    /\ last.result.kind = "Complete" =>
          \A n \in Nodes : last.result.state.done[n] = 1

C4_Witness ==
    /\ IsResume
    /\ last.result.kind = "Complete"
    /\ Resumed.next_node = "multi"
    /\ Resumed.state.done["prep"] = 1
    /\ Len(last.result.log) = 2

\* C5: when the resumed node interrupts again, the result carries a new
\* checkpoint: its checkpoint_id differs from every earlier one, its run_id and
\* next_node are those of the resumed checkpoint, and its resume_values hold
\* every key accumulated so far and, under the pending interrupt's id and node,
\* the value this resume supplied.
C5_ReinterruptGivesNewCheckpoint ==
    (/\ IsResume
     /\ last.result.kind = "Interrupted"
     /\ Len(last.result.log) = 1)
    => LET new == last.result.checkpoint
           written == {last.command.interrupt_id,
                       Resumed.pending_interrupts[1].id,
                       Resumed.pending_interrupts[1].node}
       IN  /\ new.checkpoint_id # Resumed.checkpoint_id
           /\ \A i \in 1..Len(checkpoints) :
                 checkpoints[i].checkpoint_id = new.checkpoint_id
                    => checkpoints[i] = new
           /\ new.run_id = Resumed.run_id
           /\ new.next_node = Resumed.next_node
           /\ \A k \in Keys \ written :
                 new.resume_values[k] = Resumed.resume_values[k]
           /\ \A k \in written \ {NoId} :
                 new.resume_values[k] = last.command.value

C5_Witness ==
    /\ IsResume
    /\ last.result.kind = "Interrupted"
    /\ Len(last.result.log) = 1
    /\ \E k \in Keys : Resumed.resume_values[k] # Absent

Outcome(result) == [result EXCEPT !.checkpoint.checkpoint_id = 0]

StrictlyIncreasingSeq(records) ==
    \A i \in 1..(Len(records) - 1) : records[i].seq < records[i + 1].seq

\* C7: for one recording sink fed by a sequence of emits, every record appended
\* to history, and every record delivered to the record sink, has a seq strictly
\* greater than the record before it.
C7_SeqStrictlyIncreasing ==
    /\ StrictlyIncreasingSeq(history)
    /\ StrictlyIncreasingSeq(delivered)

C7_Witness ==
    /\ Len(history) >= 3
    /\ Len(delivered) >= 2
    /\ Len(delivered) < Len(history)

\* Whether sort_records_by_meta (a stable sort by cmp_meta) leaves `records` as
\* they are: no later record compares Less than an earlier one.
SortedByMeta(records) ==
    \A i, j \in 1..Len(records) : i < j => ~CmpMetaLess(records[j], records[i])

\* C8: with several threads emitting through the same RecordingSink, a record
\* with a larger seq is never appended to the history, nor delivered to the
\* record sink, before a record with a smaller seq, so sorting by
\* (seq, timestamp_ms, event_id) reproduces the recorded order.
C8_ConcurrentOrderAgreesWithSeq ==
    /\ \A i, j \in 1..Len(history) : i < j => history[i].seq < history[j].seq
    /\ \A i, j \in 1..Len(delivered) : i < j => delivered[i].seq < delivered[j].seq
    /\ SortedByMeta(history)
    /\ SortedByMeta(delivered)

(***************************************************************************)
(* Claims about the PermissionSession.                                     *)
(***************************************************************************)
\* The pattern grammar: * matches anything, prefix* matches a permission that
\* starts with prefix, anything else matches itself only.
GrammarMatches(pattern, permission) ==
    \/ pattern = <<Star>>
    \/ /\ pattern # <<Star>>
       /\ EndsWithStar(pattern)
       /\ \E rest \in 0..Len(permission) :
             SubSeq(permission, 1, rest) = SubSeq(pattern, 1, Len(pattern) - 1)
    \/ ~EndsWithStar(pattern) /\ pattern = permission

AnyMatches(patterns, permission) ==
    \E pattern \in patterns : GrammarMatches(pattern, permission)

\* The first rule of the base policy with a matching pattern decides; Allow if
\* there is none.
BaseDecision(permission) ==
    IF AnyMatches(BaseRules[1].patterns, permission) THEN BaseRules[1].action
    ELSE IF AnyMatches(BaseRules[2].patterns, permission) THEN BaseRules[2].action
    ELSE "Allow"

\* C9: whatever replies were applied before it, a decide(p) returns Deny if a
\* reject pattern matches p, otherwise Allow if an always pattern matches,
\* otherwise Allow if a once pattern matches, otherwise the base policy's decision.
C9_PermissionPrecedence ==
    lastDecide.n > 0 =>
        LET p == lastDecide.permission IN
        lastDecide.decision =
            IF AnyMatches(lastDecide.reject_before, p) THEN "Deny"
            ELSE IF AnyMatches(lastDecide.always_before, p) THEN "Allow"
            ELSE IF AnyMatches(lastDecide.once_before, p) THEN "Allow"
            ELSE BaseDecision(p)

C9_Witness ==
    /\ lastDecide.n > 0
    /\ lastDecide.decision = "Deny"
    /\ AnyMatches(lastDecide.reject_before, lastDecide.permission)
    /\ AnyMatches(lastDecide.always_before, lastDecide.permission)
    /\ AnyMatches(lastDecide.once_before, lastDecide.permission)
    /\ BaseDecision(lastDecide.permission) = "Ask"

\* C10: a decide resolved by the once tier removes exactly one once entry, one
\* that matches the permission, and changes nothing else; a decide resolved by
\* another tier removes none; and when the decide after a once-resolved decide
\* of the same permission finds no override matching it, it returns the base
\* policy's decision.
C10_OnceConsumedOnce ==
    /\ lastDecide.tier = "once" =>
          /\ lastDecide.decision = "Allow"
          /\ lastDecide.consumed \in lastDecide.once_before
          /\ GrammarMatches(lastDecide.consumed, lastDecide.permission)
          /\ lastDecide.once_after = lastDecide.once_before \ {lastDecide.consumed}
          /\ Cardinality(lastDecide.once_after)
                = Cardinality(lastDecide.once_before) - 1
          /\ lastDecide.always_after = lastDecide.always_before
          /\ lastDecide.reject_after = lastDecide.reject_before
    /\ (lastDecide.n > 0 /\ lastDecide.tier # "once") =>
          lastDecide.once_after = lastDecide.once_before
    /\ (/\ lastDecide.prev_tier = "once"
        /\ lastDecide.prev_permission = lastDecide.permission
        /\ ~AnyMatches(lastDecide.once_before \cup lastDecide.always_before
                          \cup lastDecide.reject_before, lastDecide.permission))
       => lastDecide.decision = BaseDecision(lastDecide.permission)

C10_Witness ==
    /\ lastDecide.prev_tier = "once"
    /\ lastDecide.prev_permission = lastDecide.permission
    /\ lastDecide.tier = "base"
    /\ lastDecide.decision = "Ask"
    /\ ops = 3

\* The specificity order of the pattern grammar: an exact pattern is tier 2, a
\* prefix pattern tier 1 and ranked by the length of its prefix, * is tier 0.
Specificity(pattern) ==
    IF pattern = <<Star>> THEN <<0, 0>>
    ELSE IF EndsWithStar(pattern) THEN <<1, Len(pattern) - 1>>
    ELSE <<2, Len(pattern)>>

MoreSpecific(p, q) ==
    \/ Specificity(p)[1] > Specificity(q)[1]
    \/ Specificity(p)[1] = Specificity(q)[1] /\ Specificity(p)[2] > Specificity(q)[2]

\* C11: when several once patterns match the decided permission, the entry
\* consumed is more specific than every other matching once entry (exact over
\* prefix over *, a longer prefix over a shorter one), and every iteration order
\* of the once set selects that same entry.
C11_MostSpecificOnceConsumed ==
    lastDecide.tier = "once" =>
        /\ \A q \in lastDecide.once_before \ {lastDecide.consumed} :
              GrammarMatches(q, lastDecide.permission)
                 => MoreSpecific(lastDecide.consumed, q)
        /\ best_matching_pattern(lastDecide.once_before, lastDecide.permission)
              = {lastDecide.consumed}

C11_Witness ==
    /\ lastDecide.tier = "once"
    /\ lastDecide.permission = <<"t", "a">>
    /\ lastDecide.once_before = {<<Star>>, <<"t", Star>>, <<"t", "a", Star>>}
    /\ lastDecide.consumed = <<"t", "a", Star>>

(***************************************************************************)
(* Claims about tool invocations.                                          *)
(***************************************************************************)
ToolReturned == toolCall.n > 0 /\ toolCall.phase = "returned"
EventTypes(events) == {events[i].type : i \in 1..Len(events)}
Lifecycle == {"ToolStatus", "ToolStart", "ToolAttachment", "ToolResult", "ToolError"}
StatusAt(events, i, state) ==
    events[i] = [type |-> "ToolStatus", detail |-> state, tool |-> toolCall.tool]
OpenedInOrder(events) ==
    /\ Len(events) >= 3
    /\ StatusAt(events, 1, "Pending")
    /\ events[2] = [type |-> "ToolStart", detail |-> "", tool |-> toolCall.tool]
    /\ StatusAt(events, 3, "Running")

\* C12: a tool invocation that returns Ok has emitted, in this order,
\* ToolStatus(Pending), ToolStart, ToolStatus(Running), ToolStatus(Completed),
\* one ToolAttachment for each attachment of the returned output, and last
\* exactly one ToolResult; it has emitted no ToolError and no ToolStatus(Error).
C12_SuccessfulToolEvents ==
    (ToolReturned /\ toolCall.result.kind = "Ok") =>
        LET events == toolCall.events
            k == Len(toolCall.outcome.attachments)
        IN  /\ Len(toolCall.result.attachments) = k
            /\ Len(events) = 5 + k
            /\ OpenedInOrder(events)
            /\ StatusAt(events, 4, "Completed")
            /\ \A i \in 1..k :
                  events[4 + i] = [type |-> "ToolAttachment",
                                   detail |-> toolCall.result.attachments[i].payload,
                                   tool |-> toolCall.tool]
            /\ events[5 + k].type = "ToolResult"
            /\ Cardinality({i \in 1..Len(events) : events[i].type = "ToolResult"}) = 1
            /\ \A i \in 1..Len(events) :
                  /\ events[i].type # "ToolError"
                  /\ ~(events[i].type = "ToolStatus" /\ events[i].detail = "Error")

C12_Witness ==
    /\ ToolReturned
    /\ toolCall.result.kind = "Ok"
    /\ Len(toolCall.outcome.attachments) = 1
    /\ toolCall.outcome.attachments[1].payload = "inline-large"
    /\ toolCall.result.attachments[1].payload = "reference"
    /\ Len(toolCall.events) = 6

\* The handler returned an error, or returned Ok and the normalization of its
\* attachments failed.
FailedInvocation ==
    /\ ToolReturned
    /\ toolCall.handler_ran
    /\ \/ ~toolCall.outcome.ok
       \/ \E i \in 1..Len(toolCall.outcome.attachments) :
             \/ toolCall.outcome.attachments[i].mime_type = ""
             \/ /\ toolCall.outcome.attachments[i].payload = "inline-large"
                /\ toolCall.store = "none"

FailedToolEvents ==
    /\ Len(toolCall.events) = 5
    /\ OpenedInOrder(toolCall.events)
    /\ StatusAt(toolCall.events, 4, "Error")
    /\ toolCall.events[5].type = "ToolError"
    /\ toolCall.result.kind = "ExecutionError"
    /\ toolCall.result.message = toolCall.events[5].detail
    /\ toolCall.result.message # "sink write failed"

\* C13 as stated: every failed tool invocation has emitted exactly Pending,
\* ToolStart, Running, ToolStatus(Error), ToolError and returned the error.
C13_FailedToolEvents_AsStated == FailedInvocation => FailedToolEvents

\* C13: a failed tool invocation during which no sink write failed has emitted
\* exactly ToolStatus(Pending), ToolStart, ToolStatus(Running),
\* ToolStatus(Error), ToolError in that order and returned the handler's or the
\* normalization's error; and no failed invocation, whatever the sink did,
\* has emitted ToolStatus(Completed), ToolResult or a ToolAttachment.
C13_FailedToolEvents ==
    FailedInvocation =>
        /\ ~toolCall.sink_failed => FailedToolEvents
        /\ \A i \in 1..Len(toolCall.events) :
              /\ toolCall.events[i].type \notin {"ToolResult", "ToolAttachment"}
              /\ ~StatusAt(toolCall.events, i, "Completed")

C13_Witness ==
    /\ FailedInvocation
    /\ toolCall.outcome.ok
    /\ ~toolCall.sink_failed
    /\ toolCall.result.message = "attachment store unavailable"

AskedAndInterrupted ==
    /\ toolCall.events =
          <<[type |-> "PermissionAsked", detail |-> "", tool |-> toolCall.tool]>>
    /\ toolCall.result.kind = "Interrupted"
    /\ toolCall.result.interrupt_ids = <<<<"permission:", "t", toolCall.tool>>>>

\* C14 as stated: whenever the gate decided Ask, PermissionAsked was emitted and
\* the call failed with Interrupted carrying the one id permission:tool:<name>.
C14_AskInterrupts_AsStated ==
    (ToolReturned /\ toolCall.decision = "Ask") =>
        /\ AskedAndInterrupted
        /\ ~toolCall.handler_ran

\* C14: when the gate decided Ask and the sink accepted the PermissionAsked
\* event, that event is the only one emitted and the call fails with Interrupted
\* carrying exactly one interrupt, whose id is permission:tool:<name>; whether
\* or not the sink accepted it, the handler is not invoked and no ToolStatus,
\* ToolStart, ToolResult or ToolError is emitted.
C14_AskInterrupts ==
    (ToolReturned /\ toolCall.decision = "Ask") =>
        /\ ~toolCall.sink_failed => AskedAndInterrupted
        /\ ~toolCall.handler_ran
        /\ EventTypes(toolCall.events) \cap Lifecycle = {}

C14_Witness ==
    /\ ToolReturned
    /\ toolCall.decision = "Ask"
    /\ toolCall.path = "executor"
    /\ toolCall.result.kind = "Interrupted"
    /\ toolCall.once_before # {}

\* C15: when the gate decided Deny for tool:<name>, the call fails with
\* PermissionDenied carrying the permission tool:<name>, the handler is not
\* invoked and no event is emitted.
C15_DenyFailsWithPermissionDenied ==
    (ToolReturned /\ toolCall.decision = "Deny") =>
        /\ toolCall.result.kind = "PermissionDenied"
        /\ toolCall.result.permission = <<"t", toolCall.tool>>
        /\ ~toolCall.handler_ran
        /\ toolCall.events = <<>>

\* C16: a ToolExecutor invocation that begins with the cancellation token set
\* fails with Aborted without consulting the gate: the override sets and the
\* last decision of the session are unchanged, nothing is emitted and the
\* handler is not run.
C16_CancelledBeforeGate ==
    [][(/\ toolCall'.n = toolCall.n + 1
        /\ toolCall'.path = "executor"
        /\ cancelled)
       => /\ toolCall'.result.kind = "Aborted"
          /\ toolCall'.phase = "returned"
          /\ UNCHANGED <<once, always, reject, lastDecide>>
          /\ toolCall'.events = <<>>
          /\ ~toolCall'.handler_ran]_vars

C16_Witness ==
    /\ ToolReturned
    /\ toolCall.path = "executor"
    /\ toolCall.cancelled_at_start
    /\ toolCall.result.kind = "Aborted"
    /\ \E pattern \in once : GrammarMatches(pattern, <<"t", toolCall.tool>>)

\* C17: a cancellation check that observes the token cancelled returns Aborted
\* with the reason that was given to cancel, also while the cancel call is
\* still running on another thread.
C17_CancelReasonNeverMissing ==
    /\ lastCheck.result.kind = "Aborted"
          => lastCheck.result.message = cancelCall.reason
    /\ (toolCall.cancelled_at_start /\ toolCall.result.kind = "Aborted")
          => toolCall.result.message = cancelCall.reason

\* C18: once a sink write of a tool invocation has failed, the invocation has
\* returned the sink's error, the failed write was its last one (every earlier
\* write was accepted, none follows), and if the failed write was one of the
\* three opening ones the handler was not invoked.
C18_SinkFailureIsFatal ==
    toolCall.sink_failed =>
        /\ toolCall.phase = "returned"
        /\ toolCall.result = [kind |-> "ExecutionError", message |-> "sink write failed",
                              permission |-> <<>>, interrupt_ids |-> <<>>,
                              attachments |-> <<>>]
        /\ Len(toolCall.events) = toolCall.writes - 1
        /\ (toolCall.decision = "Allow" /\ toolCall.writes <= 3)
              => ~toolCall.handler_ran

C18_Witness ==
    /\ toolCall.sink_failed
    /\ toolCall.decision = "Allow"
    /\ toolCall.writes = 2
    /\ ~toolCall.handler_ran

(***************************************************************************)
(* Claims about run lifecycle events.                                      *)
(***************************************************************************)
\* The run id handed out by the invoke_resumable this call belongs to.
OriginalRunId == IF runCall.op = "invoke" THEN runs ELSE origin[last.from]

OpensWellFormed ==
    /\ Len(runCall.events) >= 1
    /\ runCall.events[1].run_id = OriginalRunId
    /\ runCall.op = "invoke" => runCall.events[1].type = "RunStarted"
    /\ runCall.op = "resume" =>
          /\ runCall.events[1].type = "RunResumed"
          /\ runCall.events[1].checkpoint_id = checkpoints[last.from].checkpoint_id

ClosesWellFormed ==
    /\ Len(runCall.events) = 2
    /\ runCall.events[2].run_id = OriginalRunId
    /\ last.result.kind = "Complete" => runCall.events[2].type = "RunCompleted"
    /\ last.result.kind = "Interrupted" =>
          /\ runCall.events[2].type = "RunPaused"
          /\ runCall.events[2].checkpoint_id = last.result.checkpoint.checkpoint_id
    /\ (last.result.kind = "Err" /\ last.result.error = "Aborted") =>
          /\ runCall.events[2].type = "RunAborted"
          /\ runCall.events[2].detail = "stop"
    /\ (last.result.kind = "Err" /\ last.result.error # "Aborted") =>
          runCall.events[2].type = "RunFailed"

\* C19 as stated: every invoke_resumable / resume call has emitted its opening
\* event and exactly one closing event matching the outcome it returned.
C19_RunEventsWellFormed_AsStated ==
    runCall.n > 0 => (OpensWellFormed /\ ClosesWellFormed)

\* C19: when the run-event sink accepts every write, an invoke_resumable call
\* emits RunStarted first and a resume call RunResumed first, and each then
\* emits exactly one closing event matching the outcome it returns (RunCompleted,
\* RunPaused with the returned checkpoint's id, RunAborted with the reason,
\* RunFailed otherwise), all with the run id of the original invoke_resumable;
\* when a write fails the call returns the sink's error and the failed write
\* was its last, so the run events written are a prefix of that sequence.
C19_RunEventsWellFormed ==
    runCall.n > 0 =>
        /\ ~runCall.sink_failed => (OpensWellFormed /\ ClosesWellFormed)
        /\ runCall.sink_failed =>
              /\ last.result.kind = "Err"
              /\ last.result.error = "SinkError"
              /\ Len(runCall.events) <= 1
              /\ Len(runCall.events) = 1 => OpensWellFormed

C19_Witness ==
    /\ runCall.op = "resume"
    /\ ~runCall.sink_failed
    /\ OriginalRunId = 2
    /\ runCall.events[2].type = "RunPaused"
    /\ runCall.events[2].checkpoint_id = Len(checkpoints)

(***************************************************************************)
(* Claims about the iteration bound.                                       *)
(***************************************************************************)
\* The loop iterations the path from START to END takes: one per node of the
\* chain, masked or not; a cyclic graph never reaches END.
NeedsAtMost(limit) == ~iter.cyclic /\ iter.path_len <= limit

\* C20: a finished run has failed with MaxIterationsExceeded only if its path
\* needs more than max_iterations loop iterations: a run that needs at most
\* max_iterations of them, exactly max_iterations included, ends Complete, and
\* a run that needs more fails after at most max_iterations iterations.
C20_MaxIterationsOnlyWhenExceeded ==
    iter.result # "running" =>
        /\ NeedsAtMost(iter.max_iterations) => iter.result = "Complete"
        /\ ~NeedsAtMost(iter.max_iterations) =>
              /\ iter.result = "MaxIterationsExceeded"
              /\ iter.iterations <= iter.max_iterations

(***************************************************************************)
(* Claims about next-node resolution.                                      *)
(***************************************************************************)
HasEdges(call) == call.edges.some /\ Len(call.edges.list) > 0
ConditionalAt(call) ==
    {i \in 1..Len(call.edges.list) : call.edges.list[i].kind = "Conditional"}
FirstConditional(call) ==
    CHOOSE i \in ConditionalAt(call) : \A j \in ConditionalAt(call) : i <= j

\* C21: get_next_node returns state.get_next() when it is set; otherwise the
\* evaluation of the first conditional edge of the node, even when a direct
\* edge was added before it; otherwise the target of the first direct edge;
\* and END when the node has no outgoing edges.
C21_NextNodeResolution ==
    route.n > 0 =>
        IF route.next # NoId THEN route.result = RouteOk(route.next)
        ELSE IF HasEdges(route) /\ ConditionalAt(route) # {}
             THEN route.result =
                      evaluate_branch(route.edges.list[FirstConditional(route)].to,
                                      route.key)
        ELSE IF HasEdges(route) THEN route.result = RouteOk(route.edges.list[1].to)
        ELSE route.result = RouteOk(END)

C21_Witness ==
    /\ route.next = NoId
    /\ route.n > 0
    /\ route.edges = SomeEdges(<<Direct("a"), Conditional("by_map")>>)
    /\ route.key = "a"
    /\ route.result = RouteOk("b")

(***************************************************************************)
(* Claims about node masking.                                              *)
(***************************************************************************)
InSeq(x, seq) == \E i \in 1..Len(seq) : seq[i] = x
SkippedUntouched ==
    /\ \A n \in walk.masked : ~InSeq(n, walk.state.visited)
    /\ walk.step.masked => walk.step.after = walk.step.before

CountOf(seq, P(_)) == Cardinality({i \in 1..Len(seq) : P(seq[i])})
EventsOf(records) == [i \in 1..Len(records) |-> records[i].event]

\* Every emit that returned Ok made its writes once each and in order
SuccessfulEmitWroteAll ==
    \A i \in 1..Len(rsink.results) :
        LET r == rsink.results[i]
            IsRecord(x) == x = r.record
            HasSeq(x) == x.seq = r.record.seq
        IN r.result = EmitOk =>
            /\ \A j \in 1..Len(rsink.results) :
                  j # i => rsink.results[j].record.seq # r.record.seq
            /\ r.steps = IF rsink.record_sink
                         THEN <<"record", "history", "record_sink", "inner">>
                         ELSE <<"record", "history", "inner">>
            /\ CountOf(rsink.history, IsRecord) = 1
            /\ CountOf(rsink.history, HasSeq) = 1
            /\ rsink.record_sink =>
                  /\ CountOf(rsink.delivered, IsRecord) = 1
                  /\ CountOf(rsink.delivered, HasSeq) = 1
            /\ CountOf(rsink.forwarded, HasSeq) = 1
            /\ \A k \in 1..Len(rsink.forwarded) :
                  rsink.forwarded[k].seq = r.record.seq =>
                      rsink.forwarded[k].event = r.record.event

SameStreams ==
    /\ EventsOf(rsink.history) = EventsOf(rsink.forwarded)
    /\ rsink.record_sink => rsink.delivered = rsink.history

ToolEventsOf(events) == {i \in 1..Len(events) : is_tool_event(events[i])}
\* The positions of `before` that hold one of its n most recent tool events
MostRecentTools(before, n) ==
    {i \in ToolEventsOf(before) :
        Cardinality({j \in ToolEventsOf(before) : j > i}) < n}

\* C24: an enabled prune with keep_tool_events = N leaves at most N tool
\* events, which are the N latest of the list; every other record is still
\* there; the kept records are in their old relative order; and the returned
\* count is the number of records removed.
C24_PruneKeepsLatestTools ==
    (prune.done /\ prune.policy.enabled) =>
        LET n == prune.policy.keep_tool_events
            after == prune.events
            kept == {after[k].id : k \in 1..Len(after)}
        IN /\ Cardinality(ToolEventsOf(after)) <= n
           /\ \A k \in 1..Len(after) : after[k] = prune.before[after[k].id]
           /\ \A k \in 1..(Len(after) - 1) : after[k].id < after[k + 1].id
           /\ kept = MostRecentTools(prune.before, n)
                     \cup {i \in 1..Len(prune.before) : ~is_tool_event(prune.before[i])}
           /\ prune.pruned = Len(prune.before) - Len(after)
           /\ prune.pruned = Cardinality(ToolEventsOf(prune.before)
                                         \ MostRecentTools(prune.before, n))

TypesOf(events) == [i \in 1..Len(events) |-> events[i].type]

C24_Witness ==
    /\ prune.done /\ prune.policy.enabled
    /\ prune.policy.keep_tool_events = 2
    /\ TypesOf(prune.before) = <<"ToolStart", "TextDelta", "ToolResult", "ToolStatus">>
    /\ TypesOf(prune.events) = <<"TextDelta", "ToolResult", "ToolStatus">>
    /\ prune.pruned = 1

(***************************************************************************)
(* Claims about pruning and compaction in streaming mode.                  *)
(***************************************************************************)
OpsAt(op) == {i \in 1..Len(stream.ops) : stream.ops[i] = op}
\* Where the one op `op` of the step stands in its list of operations
OpAt(op) == CHOOSE i \in OpsAt(op) : TRUE
NodeExecuted == stream.n > 0 /\ OpsAt("execute") # {}

PrunedOnceInPlace ==
    /\ Cardinality(OpsAt("prune")) = 1
    /\ IF stream.config.prune_before_compaction
       THEN OpAt("execute") < OpAt("prune") /\ OpAt("prune") < OpAt("measure")
       ELSE OpAt("measure") < OpAt("prune") /\ OpAt("prune") = Len(stream.ops)

\* Whether the policy triggers on the message count as it stood before the
\* prune of this step
CompactionDue == should_compact_with_usage(stream.config, stream.count_unpruned)

PolicyTriggers ==
    /\ stream.config.max_messages # NoMax
    /\ stream.message_count > stream.config.max_messages

\* C26: each time the policy triggers after a node, before_compaction is
\* called once; with a summary, after_compaction is called once and one
\* SessionCompacted is emitted; when the hook declines, after_compaction is
\* not called and one SessionCompactionRequested is emitted; when the policy
\* does not trigger, no hook method is called and neither event is emitted.
C26_CompactionHookContract ==
    NodeExecuted =>
        LET before == Cardinality(OpsAt("before_compaction"))
            after == Cardinality(OpsAt("after_compaction"))
            compacted == Cardinality(OpsAt("emit:SessionCompacted"))
            requested == Cardinality(OpsAt("emit:SessionCompactionRequested"))
        IN /\ stream.triggered = PolicyTriggers
           /\ stream.triggered =>
                 /\ before = 1
                 /\ \/ after = 1 /\ compacted = 1 /\ requested = 0
                       /\ OpAt("before_compaction") < OpAt("after_compaction")
                    \/ after = 0 /\ compacted = 0 /\ requested = 1
           /\ ~stream.triggered =>
                 before = 0 /\ after = 0 /\ compacted = 0 /\ requested = 0

C26_Witness ==
    /\ stream.n = 2
    /\ stream.triggered
    /\ stream.ops = <<"execute", "measure", "before_compaction",
                      "emit:SessionCompactionRequested">>
    /\ stream.user = <<"SessionCompacted", "SessionCompactionRequested">>

(***************************************************************************)
(* Claims about the session phase machine.                                 *)
(***************************************************************************)
\* The edges of the phase graph
LegalEdges ==
    {<<"UserInput", "ModelThinking">>, <<"ModelThinking", "AssistantStreaming">>,
     <<"AssistantStreaming", "ToolProposed">>, <<"ToolProposed", "ToolRunning">>,
     <<"ToolRunning", "ToolResult">>, <<"ToolResult", "AssistantStreaming">>,
     <<"AssistantStreaming", "AssistantFinalize">>,
     <<"ToolResult", "AssistantFinalize">>, <<"AssistantFinalize", "Completed">>,
     <<"Interrupted", "Resumed">>, <<"Resumed", "ModelThinking">>}
Permitted(from, to) ==
    \/ from = to
    \/ <<from, to>> \in LegalEdges
    \/ to = "Interrupted" /\ from # "Completed"
Names(message, phase) == \E i \in 1..Len(message) : message[i] = phase

AfterCall(op) == session.call.op = op /\ session.call.n > 0
\* This step is a call of `op`
JustCalled(op) == AfterCall(op)' /\ session.call.n' = session.call.n + 1

\* C27: try_transition(next) succeeds, and sets the phase to next, exactly
\* when next is the current phase, or (current, next) is a legal edge, or next
\* is Interrupted and the current phase is not Completed; otherwise it fails
\* with a message naming both phases and leaves the phase unchanged.
C27_TryTransitionLegality ==
    [][JustCalled("try_transition") =>
         LET from == session.state.phase
             to == session.call.arg'
             result == session.call.result'
         IN IF Permitted(from, to)
            THEN result.kind = "Ok" /\ session.state.phase' = to
            ELSE /\ result.kind = "Err"
                 /\ Names(result.message, from) /\ Names(result.message, to)
                 /\ session.state.phase' = from]_vars

C27_Witness ==
    /\ AfterCall("try_transition")
    /\ session.call.arg = "Interrupted"
    /\ session.call.result = TransitionErr(InvalidTransition("Completed", "Interrupted"))
    /\ session.state.phase = "Completed"

\* C28: try_transition_with_event reports every attempted change of phase as
\* an event: a legal change yields SessionPhaseChanged{from, to}, an illegal
\* one yields SessionPhaseTransitionRejected{from, to, reason} and leaves the
\* phase unchanged.
C28_TransitionReportedAsEvent ==
    [][(JustCalled("try_transition_with_event")
          /\ session.call.arg' # session.state.phase) =>
         LET from == session.state.phase
             to == session.call.arg'
             result == session.call.result'
         IN IF Permitted(from, to)
            THEN /\ result = TransitionOk(SessionPhaseChanged(from, to))
                 /\ session.state.phase' = to
            ELSE /\ result.event.type = "SessionPhaseTransitionRejected"
                 /\ result.event.from = from /\ result.event.to = to
                 /\ session.state.phase' = from]_vars

RecordsFor(tool_calls, call_id) ==
    {i \in 1..Len(tool_calls) : tool_calls[i].call_id = call_id}
RunningFor(tool_calls, call_id) ==
    {i \in RecordsFor(tool_calls, call_id) : tool_calls[i].status = "Running"}

\* C29: applying ToolStart while the phase is AssistantStreaming moves the
\* phase to ToolRunning by way of ToolProposed and returns the two phase
\* changes in order, appends one ToolCall part, and leaves one record with
\* status Running for the call_id: the record the call_id had is updated, and
\* a record is added only when it had none.
C29_ToolStartFromStreaming ==
    [][(JustCalled("ToolStart") /\ session.state.phase = "AssistantStreaming") =>
         LET call_id == session.call.arg'
             before == session.state
             after == session.state'
         IN /\ session.call.handled'
            /\ after.phase = "ToolRunning"
            /\ session.call.events' =
                  <<SessionPhaseChanged("AssistantStreaming", "ToolProposed"),
                    SessionPhaseChanged("ToolProposed", "ToolRunning")>>
            /\ after.pending_parts =
                  Append(before.pending_parts, [type |-> "ToolCall", call_id |-> call_id])
            /\ Cardinality(RunningFor(after.tool_calls, call_id)) = 1
            /\ Cardinality(RecordsFor(after.tool_calls, call_id)) =
                  IF RecordsFor(before.tool_calls, call_id) = {} THEN 1
                  ELSE Cardinality(RecordsFor(before.tool_calls, call_id))
            /\ \A i \in 1..Len(before.tool_calls) :
                  before.tool_calls[i].call_id # call_id =>
                      after.tool_calls[i] = before.tool_calls[i]]_vars

C29_Witness ==
    /\ AfterCall("ToolStart") /\ session.call.arg = "c1"
    /\ session.call.events =
          <<SessionPhaseChanged("AssistantStreaming", "ToolProposed"),
            SessionPhaseChanged("ToolProposed", "ToolRunning")>>
    /\ session.state.phase = "ToolRunning"
    /\ session.state.pending_parts = <<[type |-> "ToolCall", call_id |-> "c1"]>>
    /\ session.state.tool_calls = <<ToolCallRecord("c1", "Running")>>

(***************************************************************************)
(* Claims about attachment normalization.                                  *)
(***************************************************************************)
Oversize(a, max_inline_bytes) == a.payload = "Inline" /\ a.data_len > max_inline_bytes
\* The attachments before position i all pass normalization
PassUpTo(i) ==
    \A j \in 1..(i - 1) :
        /\ ~TrimIsEmpty(attach.attachments[j].mime_type)
        /\ Oversize(attach.attachments[j], attach.max_inline_bytes) => attach.store = "ok"

\* C30: in the output of a successful normalization every Inline attachment
\* of the handler is still Inline, with size set to its serialized length,
\* exactly when that length is at most max_inline_bytes, and is otherwise a
\* Reference with the store's reference string and that length as size; with
\* no store configured an attachment over the limit fails the invocation with
\* "attachment store unavailable".
C30_AttachmentNormalization ==
    attach.n > 0 =>
        /\ attach.result.ok =>
              /\ Len(attach.result.attachments) = Len(attach.attachments)
              /\ \A i \in 1..Len(attach.attachments) :
                    LET a == attach.attachments[i]
                        out == attach.result.attachments[i]
                    IN a.payload = "Inline" =>
                          /\ out.payload = "Inline" <=> a.data_len <= attach.max_inline_bytes
                          /\ out.payload = "Inline" =>
                                out = [a EXCEPT !.size = a.data_len]
                          /\ out.payload # "Inline" =>
                                /\ out.payload = "Reference"
                                /\ attach.store = "ok"
                                /\ out.reference = StoreRef(a)
                                /\ out.size = a.data_len
                                /\ out.mime_type = a.mime_type
        /\ \A i \in 1..Len(attach.attachments) :
              (/\ Oversize(attach.attachments[i], attach.max_inline_bytes)
               /\ ~TrimIsEmpty(attach.attachments[i].mime_type)
               /\ attach.store = "none"
               /\ PassUpTo(i)) =>
                  /\ ~attach.result.ok
                  /\ attach.result.message = "attachment store unavailable"

C30_Witness ==
    /\ attach.n > 0
    /\ attach.max_inline_bytes = 1
    /\ attach.attachments = <<InlineAttachment("text/plain", 1)>>
    /\ attach.result.ok
    /\ attach.result.attachments[1].payload = "Inline"
    /\ attach.result.attachments[1].size = 1

(***************************************************************************)
(* Claims about persisted checkpoints.                                     *)
(***************************************************************************)
PausedEvents ==
    {cstore.call.events[i] : i \in {j \in 1..Len(cstore.call.events) :
                                       cstore.call.events[j].type = "RunPaused"}}

MostRecentlyPersisted ==
    LET persisted == {i \in 1..Len(cstore.created) :
                         CheckpointStoreHas(cstore.files, StoreRunId, cstore.created[i])}
    IN  cstore.created[CHOOSE i \in persisted : \A j \in persisted : j <= i]

\* C32: the checkpoint resume_latest_from_store selects is the most recently
\* created of the checkpoints persisted for the run.
C32_LatestIsMostRecent ==
    [][(cstore'.call.n > cstore.call.n
        /\ cstore'.call.op = "resume_latest_from_store"
        /\ cstore'.call.listed # <<>>)
       => cstore'.call.picked = MostRecentlyPersisted]_vars

(***************************************************************************)
(* Claims about the permission ask / reply / resume protocol.              *)
(***************************************************************************)
AskReturned == ask.result \in {"Interrupted", "Complete", "Err"}
AskingPermissions == {ToolPermissionOf(i) : i \in ask.asking}
RECURSIVE RAISE(_, _)
RAISE(base, e) == IF e = 0 THEN 1 ELSE base * RAISE(base, e - 1)

\* C33: when the policy asks for a tool's permission the invocation returns
\* Interrupted with exactly one pending interrupt, for that permission; for a
\* handler with one such tool, the resume that follows a Once reply completes
\* the run; the once override is consumed by then, so that every later
\* independent invocation is asked again.
C33_AskThenResume ==
    /\ ask.result = "Interrupted" =>
          ask.pending = 1 /\ ask.asked \in AskingPermissions
    /\ (AskReturned /\ ask.resumes = 0 /\ ask.asking # {}) =>
          ask.result = "Interrupted"
    /\ (AskReturned /\ ask.resumes = 1 /\ Cardinality(ask.asking) = 1) =>
          ask.result = "Complete"
    /\ ask.result = "Complete" => ask.once = {}
C33_Witness ==
    /\ Cardinality(ask.asking) = 1
    /\ ask.run = 2
    /\ ask.total = 1
    /\ ask.resumes = 0
    /\ ask.result = "Interrupted"

\* C38 as stated: with k tools of the handler marked Ask, the run is
\* complete after at most k resumes.
C38_CompleteWithinKResumes ==
    LET k == Cardinality(ask.asking) IN
    /\ ask.resumes <= k
    /\ (AskReturned /\ ask.resumes = k) => ask.result = "Complete"

\* C38, amended: with k tools of the handler marked Ask, the run is complete
\* after at most 2^k - 1 resumes, and no call of the protocol fails.
C38_CompleteWithinResumes ==
    LET most == RAISE(2, Cardinality(ask.asking)) - 1 IN
    /\ ask.resumes <= most
    /\ (AskReturned /\ ask.resumes = most) => ask.result = "Complete"
    /\ ask.result # "Err"
C38_Witness ==
    /\ Cardinality(ask.asking) = 2
    /\ ask.resumes = 3
    /\ ask.result = "Complete"

(***************************************************************************)
(* Claims about concurrent permission decisions.                           *)
(***************************************************************************)
BothDecided == \A t \in GateThreads : gate.pc[t] = "done"
OneOnceEntryMatches ==
    Cardinality({pattern \in gate.once_before :
                    matches_pattern(pattern, gate.permission)}) = 1
NoStandingOverride ==
    \A pattern \in gate.always \cup gate.reject :
       ~matches_pattern(pattern, gate.permission)
OneAllowOneAsk ==
    \E t \in GateThreads :
       /\ gate.decision[t] = "Allow"
       /\ \A u \in GateThreads \ {t} : gate.decision[u] = "Ask"

\* C34 as stated: with exactly one once entry matching p and a base policy
\* that asks for p, two concurrent decide(p) calls give one Allow and one Ask.
C34_OnceAuthorizesOneCall_AsStated ==
    (BothDecided /\ OneOnceEntryMatches
       /\ PolicyDecide(BaseRules, gate.permission) = "Ask")
       => OneAllowOneAsk

\* C34, amended: the same, when no always or reject entry matches p.
C34_OnceAuthorizesOneCall ==
    (BothDecided /\ OneOnceEntryMatches /\ NoStandingOverride
       /\ PolicyDecide(BaseRules, gate.permission) = "Ask")
       => OneAllowOneAsk
C34_Witness ==
    /\ BothDecided /\ OneOnceEntryMatches /\ NoStandingOverride
    /\ PolicyDecide(BaseRules, gate.permission) = "Ask"
    /\ gate.decision[2] = "Allow"
    /\ gate.decision[1] = "Ask"

(***************************************************************************)
(* Claims about event reduction and the phase table.                       *)
(***************************************************************************)
ReducedEvents == {"TextDelta", "TextFinal", "ToolStart", "ToolResult", "ToolError",
                  "StepFinish"}
\* The phase an event asks for
TargetPhase(type) ==
    CASE type \in {"TextDelta", "TextFinal"} -> "AssistantStreaming"
      [] type = "ToolStart" -> "ToolRunning"
      [] type \in {"ToolResult", "ToolError"} -> "ToolResult"
      [] type = "StepFinish" -> "AssistantFinalize"
\* The phases an event can legally take the session to from `from`
ReachableByEvent(type, from) ==
    \/ Permitted(from, TargetPhase(type))
    \/ type = "ToolStart" /\ from = "AssistantStreaming"
\* events is a path of edges from `from` to `to`
IsLegalPath(events, from, to) ==
    /\ \A i \in 1..Len(events) :
          /\ events[i].type = "SessionPhaseChanged"
          /\ events[i].from # events[i].to
          /\ Permitted(events[i].from, events[i].to)
          /\ events[i].from = IF i = 1 THEN from ELSE events[i - 1].to
    /\ to = IF events = <<>> THEN from ELSE events[Len(events)].to

\* C35: the phase changes apply_event makes, and the SessionPhaseChanged
\* events it returns, are a path of edges that try_transition permits, from
\* the phase before to the phase after; an event whose target phase cannot be
\* reached legally leaves the phase unchanged and returns no phase event; in
\* both cases the event's part is appended to pending_parts.
C35_ReductionFollowsPhaseTable ==
    [][(\E type \in ReducedEvents : JustCalled(type)) =>
         LET type == session.call.op'
             before == session.state
             after == session.state'
             events == session.call.events'
         IN /\ session.call.handled'
            /\ IsLegalPath(events, before.phase, after.phase)
            /\ ~ReachableByEvent(type, before.phase) =>
                  after.phase = before.phase /\ events = <<>>
            /\ Len(after.pending_parts) = Len(before.pending_parts) + 1
            /\ SubSeq(after.pending_parts, 1, Len(before.pending_parts)) =
                  before.pending_parts]_vars
C35_Witness ==
    /\ AfterCall("ToolStart")
    /\ session.call.events = <<>>
    /\ session.state.phase = "UserInput"
    /\ Len(session.state.pending_parts) = 1

\* C36: once the phase is Completed, no call of try_transition,
\* try_transition_with_event or apply_event changes it.
C36_CompletedIsAbsorbing ==
    [][session.state.phase = "Completed" => session.state.phase' = "Completed"]_vars
C36_Witness ==
    /\ AfterCall("try_transition_with_event")
    /\ session.call.arg = "Interrupted"
    /\ session.call.result.kind = "Err"
    /\ session.state.phase = "Completed"

(***************************************************************************)
(* Claims about the working set after a compaction.                        *)
(***************************************************************************)
\* The step performed a compaction: the hook returned a summary
CompactionPerformed == NodeExecuted /\ OpsAt("after_compaction") # {}
\* At most this many messages are counted in for one more node: its one
\* snapshot message, or the SessionCompacted record and the events it emits
AddedByNextNode(emitted) ==
    IF stream.config.session_snapshot THEN 1 ELSE 1 + Len(emitted)

\* C37: after a compaction was performed (the hook returned a summary), the
\* message count measured at the following node boundary is at most
\* max_messages plus the messages added since.
C37_CompactionBoundsWorkingSet ==
    [][(CompactionPerformed /\ stream'.n = stream.n + 1
          /\ stream'.status = "running")
         => stream'.message_count
              <= stream.config.max_messages + AddedByNextNode(stream'.emitted)]_vars

(***************************************************************************)
(* Claims about redirects through state.next.                              *)
(***************************************************************************)
\* The routing decision that chose walk.current_node followed a redirect
RoutedByRedirect ==
    /\ walk.status = "running"
    /\ walk.state.next # NoId
    /\ walk.current_node = walk.state.next
\* What the edges alone give after `node`, no redirect being set
EdgesOnly(node, state) == get_next_node(WalkEdges[node], NoId, state.route).node

\* C39: a redirect requested through state.set_next is honoured for one
\* routing decision: once the executor has routed to the requested node and no
\* handler sets a new redirect, the following routing decision uses the
\* graph's edges, and the run does not end with MaxIterationsExceeded.
C39_RedirectHonouredOnce ==
    [][(RoutedByRedirect /\ walk'.step.n = walk.step.n + 1)
         => /\ walk'.step.to = EdgesOnly(walk'.step.node, walk'.step.after)
            /\ walk'.status # "MaxIterationsExceeded"]_vars

(***************************************************************************)
(* Claims about the iteration budget across pauses.                        *)
(***************************************************************************)
\* The last call resumed a checkpoint that had used the budget up
ResumedExhausted ==
    /\ budget.last.op = "resume"
    /\ budget.checkpoints[budget.last.from].iterations >= budget.graph.max_iterations
FailedWithoutExecuting ==
    /\ budget.last.kind = "Err"
    /\ budget.last.error = "MaxIterationsExceeded"
    /\ budget.last.executed = 0

\* C40 as stated: over an invoke_resumable call and every later resume of
\* checkpoints descended from it, the total number of node executions never
\* exceeds max_iterations, and a resume made after the budget is exhausted
\* fails with MaxIterationsExceeded without executing any node.
C40_BudgetIsCumulative_AsStated ==
    /\ budget.total <= budget.graph.max_iterations
    /\ ResumedExhausted => FailedWithoutExecuting

\* C40: over an invoke_resumable call and the resumes along any one chain of
\* checkpoints descended from it, each resume taking the checkpoint the call
\* before it returned, the number of node executions never exceeds
\* max_iterations and equals the iteration count the checkpoint carries, and
\* a resume of a checkpoint whose iteration count has reached max_iterations
\* fails with MaxIterationsExceeded without executing any node.
C40_BudgetIsCumulative ==
    /\ budget.last.chain <= budget.graph.max_iterations
    /\ \A c \in 1..Len(budget.checkpoints) :
          /\ budget.checkpoints[c].spent = budget.checkpoints[c].iterations
          /\ budget.checkpoints[c].spent <= budget.graph.max_iterations
    /\ ResumedExhausted => FailedWithoutExecuting

C40_Witness ==
    /\ budget.graph.max_iterations = 3
    /\ Len(budget.checkpoints) = 3
    /\ budget.checkpoints[3].iterations = 3
    /\ budget.last.op = "resume" /\ budget.last.from = 3
    /\ budget.last.chain = 3 /\ budget.total = 3
    /\ FailedWithoutExecuting

====
